---- MODULE Spec2Model ----
(***************************************************************************)
(* Five Forks Fire Weather: the fuel-moisture calculator                   *)
(* (src/fuel-calculator.js), the fire-behavior calculator                  *)
(* (src/unnamed/part_001) and the dashboard's forecast loading             *)
(* (src/main.js) as a state machine whose actions are the calls of their   *)
(* functions, the iterations of their loops and the settling of the        *)
(* dashboard's awaits.                                                     *)
(*                                                                         *)
(* JavaScript values are records [k, v, s]:                                *)
(*   k = "num"        a finite number, v its value in units of 1/Scale     *)
(*   k = "nan"        NaN                                                  *)
(*   k = "inf"        +Infinity (v = 1) or -Infinity (v = -1)              *)
(*   k = "undefined", k = "null"                                           *)
(*   k = "str"        a string, s its sequence of characters               *)
(*   k = "text"       a string that is only compared, s = <<the string>>   *)
(*   k = "throw"      a thrown exception, s = <<its type>>                 *)
(*   k = "obj"        an object, o the record of its properties            *)
(*   k = "array"      an array, s the sequence of its elements             *)
(*   k = "json"       a JSON text, o the value it parses to                *)
(* Finite arithmetic is decimal fixed point with four fractional digits,   *)
(* rounded to nearest; the rounding of IEEE-754 doubles in the 16th        *)
(* significant digit is below the model's resolution.                      *)
(***************************************************************************)
EXTENDS Integers, Sequences, FiniteSets, TLC

Scale == 10 * 1000

\* ---------------------------------------------------------------- values
Num(v)    == [k |-> "num", v |-> v, s |-> <<>>]
\* the decimal literal n/d, e.g. Fx(942, 1000) is 0.942
Fx(n, d)  == Num((n * Scale) \div d)
NaN       == [k |-> "nan", v |-> 0, s |-> <<>>]
Inf(sign) == [k |-> "inf", v |-> sign, s |-> <<>>]
PosInf    == Inf(1)
NegInf    == Inf(-1)
Undefined == [k |-> "undefined", v |-> 0, s |-> <<>>]
Null      == [k |-> "null", v |-> 0, s |-> <<>>]
Str(s)    == [k |-> "str", v |-> 0, s |-> s]

IsNum(x) == x.k = "num"
IsNaN(x) == x.k = "nan"
IsInf(x) == x.k = "inf"
\* typeof x === 'number'
IsNumberType(x) == x.k \in {"num", "nan", "inf"}

Abs(i) == IF i < 0 THEN -i ELSE i
Sgn(i) == IF i < 0 THEN -1 ELSE IF i > 0 THEN 1 ELSE 0

\* ------------------------------------------------- fixed-point arithmetic
\* a*b/Scale for a, b >= 0, rounded to nearest, without leaving 32 bits
MulAbs(a, b) ==
    LET ah == a \div Scale
        al == a % Scale
        bh == b \div Scale
        bl == b % Scale
    IN  ah * bh * Scale + ah * bl + al * bh + (al * bl + Scale \div 2) \div Scale

\* a*b/Scale for a, b >= 0, rounded down
MulFloor(a, b) ==
    LET ah == a \div Scale
        al == a % Scale
        bh == b \div Scale
        bl == b % Scale
    IN  ah * bh * Scale + ah * bl + al * bh + (al * bl) \div Scale

MulFx(a, b) == Sgn(a) * Sgn(b) * MulAbs(Abs(a), Abs(b))

RECURSIVE DivDigits(_, _, _)
\* the first n decimal digits of r/b for 0 <= r < b, as an integer
DivDigits(r, b, n) ==
    IF n = 0 THEN 0
    ELSE LET d == (r * 10) \div b
         IN  d * (10 ^ (n - 1)) + DivDigits((r * 10) % b, b, n - 1)

\* a*Scale/b for a >= 0, b > 0, rounded to nearest
DivAbs(a, b) ==
    LET q  == a \div b
        f5 == DivDigits(a % b, b, 5)
    IN  q * Scale + (f5 + 5) \div 10

DivFx(a, b) == Sgn(a) * Sgn(b) * DivAbs(Abs(a), Abs(b))

\* ------------------------------------------------------- strings <-> numbers
DigitChars == <<"0", "1", "2", "3", "4", "5", "6", "7", "8", "9">>
IsDigit(c) == \E i \in 1..10 : DigitChars[i] = c
DigitVal(c) == (CHOOSE i \in 1..10 : DigitChars[i] = c) - 1

\* the white space of the texts the program meets: space, line feed, return, tab
WhiteSpace == {" ", "\n", "\r", "\t"}
RECURSIVE TrimLeft(_)
TrimLeft(s) == IF s # <<>> /\ Head(s) \in WhiteSpace THEN TrimLeft(Tail(s)) ELSE s
RECURSIVE TrimRight(_)
TrimRight(s) ==
    IF s # <<>> /\ s[Len(s)] \in WhiteSpace THEN TrimRight(SubSeq(s, 1, Len(s) - 1)) ELSE s
\* String.prototype.trim
Trim(s) == TrimRight(TrimLeft(s))

RECURSIVE DigitsValue(_, _)
DigitsValue(s, acc) ==
    IF s = <<>> THEN acc ELSE DigitsValue(Tail(s), acc * 10 + DigitVal(Head(s)))

\* the first four fractional digits, as units of 1/Scale
FracValue(s) ==
    LET p == s \o <<"0", "0", "0", "0">>
    IN  DigitsValue(SubSeq(p, 1, 4), 0)

\* an unsigned decimal literal: digits, optionally a point and digits
ParseUnsigned(s) ==
    LET dots == {i \in 1..Len(s) : s[i] = "."}
        dot  == IF dots = {} THEN Len(s) + 1 ELSE CHOOSE i \in dots : TRUE
        ip   == SubSeq(s, 1, dot - 1)
        fp   == SubSeq(s, dot + 1, Len(s))
    IN  IF Cardinality(dots) > 1 THEN NaN
        ELSE IF Len(ip) + Len(fp) = 0 THEN NaN
        ELSE IF \E i \in 1..Len(ip) : ~IsDigit(ip[i]) THEN NaN
        ELSE IF \E i \in 1..Len(fp) : ~IsDigit(fp[i]) THEN NaN
        ELSE Num(DigitsValue(ip, 0) * Scale + FracValue(fp))

InfinityChars == <<"I", "n", "f", "i", "n", "i", "t", "y">>

\* a signed literal that is not blank: a decimal literal or Infinity
ParseSigned(t) ==
    LET neg  == Head(t) = "-"
        body == IF Head(t) \in {"-", "+"} THEN Tail(t) ELSE t
        u    == ParseUnsigned(body)
    IN  IF body = InfinityChars THEN (IF neg THEN NegInf ELSE PosInf)
        ELSE IF IsNum(u) /\ neg THEN Num(-u.v)
        ELSE u

\* Number(string): blank is 0, anything that is not a numeric literal is NaN
StringToNumber(s) ==
    LET t == Trim(s)
    IN  IF t = <<>> THEN Num(0) ELSE ParseSigned(t)

\* parseFloat(string): blank is NaN; a toFixed() output parses as Number does
ParseFloat(s) ==
    LET t == Trim(s)
    IN  IF t = <<>> THEN NaN ELSE ParseSigned(t)

\* ToNumber, the coercion the arithmetic operators and Math.* apply
ToNumber(x) ==
    CASE x.k \in {"num", "nan", "inf"} -> x
      [] x.k = "null" -> Num(0)
      [] x.k = "str" -> StringToNumber(x.s)
      [] OTHER -> NaN

RECURSIVE NatChars(_)
NatChars(n) ==
    IF n < 10 THEN <<DigitChars[n + 1]>>
    ELSE NatChars(n \div 10) \o <<DigitChars[(n % 10) + 1]>>

RECURSIVE PadChars(_, _)
\* n in exactly d digits
PadChars(n, d) ==
    IF d = 0 THEN <<>> ELSE PadChars(n \div 10, d - 1) \o <<DigitChars[(n % 10) + 1]>>

\* Number.prototype.toFixed(d) for d in 1..4: the nearest d-digit decimal,
\* the larger one of two equally near
ToFixed(x, d) ==
    LET u == 10 ^ (4 - d)
        q == (Abs(x.v) + u \div 2) \div u
        p == 10 ^ d
    IN  CASE IsNaN(x) -> Str(<<"N", "a", "N">>)
          [] IsInf(x) -> Str((IF x.v < 0 THEN <<"-">> ELSE <<>>) \o InfinityChars)
          [] OTHER -> Str((IF x.v < 0 THEN <<"-">> ELSE <<>>)
                          \o NatChars(q \div p) \o <<".">> \o PadChars(q % p, d))

\* ------------------------------------------------------ number operations
\* Number.isFinite: no coercion
NumberIsFinite(x) == x.k = "num"

\* x + y on numbers
AddNum(x, y) ==
    CASE IsNaN(x) \/ IsNaN(y) -> NaN
      [] IsInf(x) /\ IsInf(y) -> IF x.v = y.v THEN x ELSE NaN
      [] IsInf(x) -> x
      [] IsInf(y) -> y
      [] OTHER -> Num(x.v + y.v)

NegNum(x) ==
    CASE IsNaN(x) -> NaN
      [] IsInf(x) -> Inf(-x.v)
      [] OTHER -> Num(-x.v)

\* x * y on numbers
MulNum(x, y) ==
    CASE IsNaN(x) \/ IsNaN(y) -> NaN
      [] IsInf(x) \/ IsInf(y) ->
            IF Sgn(x.v) * Sgn(y.v) = 0 THEN NaN
            ELSE Inf(Sgn(x.v) * Sgn(y.v))
      [] OTHER -> Num(MulFx(x.v, y.v))

\* x / y on numbers
DivNum(x, y) ==
    CASE IsNaN(x) \/ IsNaN(y) -> NaN
      [] IsInf(x) /\ IsInf(y) -> NaN
      [] IsInf(x) -> Inf(x.v * (IF y.v < 0 THEN -1 ELSE 1))
      [] IsInf(y) -> Num(0)
      [] y.v = 0 -> IF x.v = 0 THEN NaN ELSE Inf(Sgn(x.v))
      [] OTHER -> Num(DivFx(x.v, y.v))

\* the JavaScript operators +, -, *, / and unary - on operands that are not strings
Add(x, y) == AddNum(ToNumber(x), ToNumber(y))
Sub(x, y) == AddNum(ToNumber(x), NegNum(ToNumber(y)))
Mul(x, y) == MulNum(ToNumber(x), ToNumber(y))
Div(x, y) == DivNum(ToNumber(x), ToNumber(y))
Neg(x)    == NegNum(ToNumber(x))

\* x < y on numbers: false when either is NaN
LtNum(x, y) ==
    CASE IsNaN(x) \/ IsNaN(y) -> FALSE
      [] IsInf(x) /\ IsInf(y) -> x.v < y.v
      [] IsInf(x) -> x.v < 0
      [] IsInf(y) -> y.v > 0
      [] OTHER -> x.v < y.v

EqNum(x, y) == ~IsNaN(x) /\ ~IsNaN(y) /\ x = y

\* the relational operators <, <=, >, >=
Lt(x, y) == LtNum(ToNumber(x), ToNumber(y))
Le(x, y) == Lt(x, y) \/ EqNum(ToNumber(x), ToNumber(y))
Gt(x, y) == Lt(y, x)
Ge(x, y) == Le(y, x)

MaxNum(a, b) == IF IsNaN(a) \/ IsNaN(b) THEN NaN ELSE IF LtNum(a, b) THEN b ELSE a
MinNum(a, b) == IF IsNaN(a) \/ IsNaN(b) THEN NaN ELSE IF LtNum(b, a) THEN b ELSE a

\* Math.max and Math.min of two arguments: NaN when either is NaN
MathMax(x, y) == MaxNum(ToNumber(x), ToNumber(y))
MathMin(x, y) == MinNum(ToNumber(x), ToNumber(y))

\* ------------------------------------------------------ Math.exp, Math.pow
\* floor(10^8 * e^n) for n = -10..-1
ExpTableNeg == <<4539, 12340, 33546, 91188, 247875, 673794, 1831563, 4978706, 13533528, 36787944>>
\* floor(10^4 * e^n) for n = 0..11
ExpTablePos == <<10000, 27182, 73890, 200855, 545981, 1484131, 4034287, 10966331, 29809579, 81030839, 220264657, 598741417>>

\* e^(f/Scale) for 0 <= f < Scale: the Taylor polynomial, every term rounded down
ExpFrac(f) ==
    LET t2 == ((f * f) \div Scale) \div 2
        t3 == ((t2 * f) \div Scale) \div 3
        t4 == ((t3 * f) \div Scale) \div 4
        t5 == ((t4 * f) \div Scale) \div 5
        t6 == ((t5 * f) \div Scale) \div 6
        t7 == ((t6 * f) \div Scale) \div 7
        t8 == ((t7 * f) \div Scale) \div 8
    IN  Scale + f + t2 + t3 + t4 + t5 + t6 + t7 + t8

\* e^(x/Scale) in units of 1/Scale, rounded down and non-decreasing in x;
\* defined for x/Scale < 12, beyond which the result leaves the fixed-point range
ExpFx(x) ==
    LET n == x \div Scale
        p == ExpFrac(x % Scale)
    IN  IF n < -10 THEN 0
        ELSE IF n < 0
        THEN LET t == ExpTableNeg[n + 11]
             IN  ((t \div Scale) * p + ((t % Scale) * p) \div Scale) \div Scale
        ELSE MulFloor(ExpTablePos[n + 1], p)

\* the largest argument, in units of 1/Scale, whose exponential is a finite double
ExpOverflowArg == 709 * Scale + 7827

ExpNum(a) ==
    CASE IsNaN(a) -> NaN
      [] IsInf(a) -> IF a.v > 0 THEN PosInf ELSE Num(0)
      [] a.v > ExpOverflowArg -> PosInf
      [] OTHER -> Num(ExpFx(a.v))

\* Math.exp
MathExp(x) == ExpNum(ToNumber(x))

\* the largest d in 0..9 with ExpFx(base + d*unit) < x, given ExpFx(base) < x
LnDigit(x, base, unit) ==
    CHOOSE d \in 0..9 :
        /\ ExpFx(base + d * unit) < x
        /\ d < 9 => ExpFx(base + (d + 1) * unit) >= x

\* base advanced by the largest multiple of unit that keeps ExpFx below x
LnRefine(x, base, unit) == base + unit * LnDigit(x, base, unit)

\* the largest whole i with ExpFx(i*Scale) < x
LnInt(x) == CHOOSE i \in -11..10 : ExpFx(i * Scale) < x /\ ExpFx((i + 1) * Scale) >= x

\* ln(x/Scale) in units of 1/Scale for 0 < x/Scale < e^11: the inverse of ExpFx,
\* the least y with ExpFx(y) >= x, found digit by digit
LnFx(x) ==
    LnRefine(x, LnRefine(x, LnRefine(x, LnRefine(x, LnInt(x) * Scale, 1000), 100), 10), 1) + 1

\* e^(y*l) for the logarithm l and the exponent y > 0, both in units of 1/Scale
PowFx(l, y) == ExpFx(Sgn(l) * MulFloor(Abs(l), y))

PowNum(a, y) ==
    CASE IsNaN(a) -> NaN
      [] IsInf(a) -> PosInf
      [] a.v < 0 -> NaN
      [] a.v = 0 -> Num(0)
      [] OTHER -> Num(PowFx(LnFx(a.v), y.v))

\* Math.pow(x, y) for a finite y > 0 that is not an integer (0.679 and 1.15 here)
MathPow(x, y) == PowNum(ToNumber(x), y)

\* a string that is only ever compared (a property key, a name), a thrown
\* exception, an object with its properties
Text(s)  == [k |-> "text", v |-> 0, s |-> <<s>>]
Throw(e) == [k |-> "throw", v |-> 0, s |-> <<e>>]
Obj(r)   == [k |-> "obj", v |-> 0, s |-> <<>>, o |-> r]
IsThrow(x) == x.k = "throw"
IsUndefined(x) == x.k = "undefined"

\* !x: undefined, null, NaN, 0 and the empty string are falsy
Not(x) ==
    \/ x.k \in {"undefined", "null", "nan"}
    \/ x.k = "num" /\ x.v = 0
    \/ x.k \in {"str", "text"} /\ x.s \in {<<>>, <<"">>}

\* o.p for an object o; reading a property of undefined or null throws
GetProp(o, p) ==
    IF o.k \in {"undefined", "null"} THEN Throw("TypeError")
    ELSE IF o.k = "obj" /\ p \in DOMAIN o.o THEN o.o[p]
    ELSE Undefined

\* a parameter's default value applies when the argument is undefined
DefaultParam(x, d) == IF IsUndefined(x) THEN d ELSE x

\* ============================================ src/fuel-calculator.js
safeParse(value, fallback) ==
    CASE value.k \in {"null", "undefined"} -> fallback
      [] IsNumberType(value) -> IF NumberIsFinite(value) THEN value ELSE fallback
      [] value.k = "str" ->
            LET trimmed == Trim(value.s)
                n == StringToNumber(trimmed)
            IN  IF trimmed = <<>> THEN fallback
                ELSE IF NumberIsFinite(n) THEN n ELSE fallback
      [] OTHER -> fallback

clamp(v, min, max) == MathMin(max, MathMax(min, safeParse(v, min)))

round1(v) == StringToNumber(ToFixed(ToNumber(v), 1).s)

\* term1 + term2 + term3 for the temperature T and the clamped humidity H
emcFormula(T, H) ==
    LET term1 == Mul(Fx(942, 1000), MathPow(H, Fx(679, 1000)))
        term2 == Mul(Fx(11, 1), MathExp(Div(Sub(H, Fx(100, 1)), Fx(10, 1))))
        term3 == Mul(Mul(Fx(18, 100),
                         Sub(Fx(211, 10), Mul(Sub(T, Fx(32, 1)), Div(Fx(5, 1), Fx(9, 1))))),
                     Sub(Fx(1, 1), MathExp(Mul(Fx(-115, 1000), H))))
    IN  Add(Add(term1, term2), term3)

\* if (!Number.isFinite(emc) || emc < 0.1) emc = 0.1
emcFloor(emc) == IF ~NumberIsFinite(emc) \/ Lt(emc, Fx(1, 10)) THEN Fx(1, 10) ELSE emc

\* if (emc > 100) emc = 100
emcCap(emc) == IF Gt(emc, Fx(100, 1)) THEN Fx(100, 1) ELSE emc

\* computeEMC without its floor: the formula's value is only capped at 100
computeEMC_NoFloor(tempF, rh) ==
    round1(emcCap(emcFormula(safeParse(tempF, Fx(70, 1)), clamp(rh, Fx(0, 1), Fx(100, 1)))))

computeEMC(tempF, rh) ==
    round1(emcCap(emcFloor(emcFormula(safeParse(tempF, Fx(70, 1)),
                                      clamp(rh, Fx(0, 1), Fx(100, 1))))))

\* E + (M0 - E) * k with k = Math.exp(-t / tau)
timeLagResult(M0, E, t, tau) == Add(E, Mul(Sub(M0, E), MathExp(Div(Neg(t), tau))))

\* stepMoisture that lets at least one hour elapse
stepMoisture_MinHour(initial, emc, hours, timeLag) ==
    round1(timeLagResult(safeParse(initial, safeParse(emc, Fx(5, 1))),
                         safeParse(emc, Fx(5, 1)),
                         MathMax(Fx(1, 1), safeParse(hours, Fx(0, 1))),
                         MathMax(Fx(1, 10000), safeParse(timeLag, Fx(1, 1)))))

stepMoisture(initial, emc, hours, timeLag) ==
    round1(timeLagResult(safeParse(initial, safeParse(emc, Fx(5, 1))),
                         safeParse(emc, Fx(5, 1)),
                         MathMax(Fx(0, 1), safeParse(hours, Fx(0, 1))),
                         MathMax(Fx(1, 10000), safeParse(timeLag, Fx(1, 1)))))

\* an array with the elements of the sequence seq
Array(seq) == [k |-> "array", v |-> 0, s |-> seq]
ArrayIsArray(x) == x.k = "array"

\* day && day.p: a falsy day is the value of the expression
AndProp(day, p) == IF Not(day) THEN day ELSE GetProp(day, p)

\* x || y
OrElse(x, y) == IF Not(x) THEN y ELSE x

\* (day && day.label) || `Day ${idx + 1}`
dayLabel(day, idx) ==
    OrElse(AndProp(day, "label"), Str(<<"D", "a", "y", " ">> \o NatChars(idx + 1)))

\* runModel with the two time lags exchanged
dailyResultOf_SwappedLags(label, temp, rh, wind, hours, emc, prev1, prev10) ==
    [day |-> label, temp |-> temp, rh |-> rh, wind |-> wind, hours |-> hours, emc |-> emc,
     moisture1Hr |-> stepMoisture(prev1, emc, hours, Fx(10, 1)),
     moisture10Hr |-> stepMoisture(prev10, emc, hours, Fx(1, 1))]

\* the object runModel pushes for one entry
dailyResultOf(label, temp, rh, wind, hours, emc, prev1, prev10) ==
    [day |-> label, temp |-> temp, rh |-> rh, wind |-> wind, hours |-> hours, emc |-> emc,
     moisture1Hr |-> stepMoisture(prev1, emc, hours, Fx(1, 1)),
     moisture10Hr |-> stepMoisture(prev10, emc, hours, Fx(10, 1))]

dailyResultEmc(label, temp, rh, wind, hours, prev1, prev10) ==
    dailyResultOf(label, temp, rh, wind, hours, computeEMC(temp, rh), prev1, prev10)

\* the body of entries.forEach((day, idx) => ...) up to the push
dailyResult(day, idx, prev1, prev10) ==
    dailyResultEmc(dayLabel(day, idx),
                   safeParse(AndProp(day, "temp"), Fx(70, 1)),
                   clamp(AndProp(day, "rh"), Fx(0, 1), Fx(100, 1)),
                   safeParse(AndProp(day, "wind"), Fx(0, 1)),
                   MathMax(Fx(0, 1), safeParse(AndProp(day, "hours"), Fx(12, 1))),
                   prev1, prev10)

\* runModel putting each new result in front of the earlier ones
runModelPush_Unshift(st, r) ==
    [st EXCEPT !.results = <<r>> \o st.results, !.m1 = r.moisture1Hr,
               !.m10 = r.moisture10Hr, !.i = st.i + 1]

\* results.dailyResults.push(r); prev1 = m1; prev10 = m10
runModelPush(st, r) ==
    [st EXCEPT !.results = Append(st.results, r), !.m1 = r.moisture1Hr,
               !.m10 = r.moisture10Hr, !.i = st.i + 1]

\* Array.isArray(forecastEntries) ? forecastEntries : []
runModelEntries(forecastEntries) ==
    IF ArrayIsArray(forecastEntries) THEN forecastEntries.s ELSE <<>>

\* findIndex replaced by a search for the last element that passes
critIdx_Last(dailyResults) ==
    LET passing == {i \in 1..Len(dailyResults) :
                      /\ NumberIsFinite(dailyResults[i].moisture1Hr)
                      /\ Le(dailyResults[i].moisture1Hr, Fx(6, 1))}
    IN  IF passing = {} THEN 0 ELSE CHOOSE i \in passing : \A j \in passing : i >= j

\* dailyResults.findIndex(d => Number.isFinite(d.moisture1Hr) && d.moisture1Hr <= 6),
\* counted from 1; 0 when no element passes
critIdx(dailyResults) ==
    LET passing == {i \in 1..Len(dailyResults) :
                      /\ NumberIsFinite(dailyResults[i].moisture1Hr)
                      /\ Le(dailyResults[i].moisture1Hr, Fx(6, 1))}
    IN  IF passing = {} THEN 0 ELSE CHOOSE i \in passing : \A j \in passing : i <= j

\* runModel reporting the first day's moistures as the final ones
runModelResults_FirstDay(start1, start10, dailyResults, prev1, prev10) ==
    Obj([initial1hr |-> start1, initial10hr |-> start10, dailyResults |-> dailyResults,
         summary |->
           [firstCritical1HrDay |->
              IF critIdx(dailyResults) >= 1 THEN dailyResults[critIdx(dailyResults)].day
              ELSE Null,
            final1Hr |-> IF Len(dailyResults) # 0
                         THEN dailyResults[1].moisture1Hr ELSE prev1,
            final10Hr |-> IF Len(dailyResults) # 0
                          THEN dailyResults[1].moisture10Hr ELSE prev10]])

\* the summary fields and the returned object
runModelResults(start1, start10, dailyResults, prev1, prev10) ==
    Obj([initial1hr |-> start1, initial10hr |-> start10, dailyResults |-> dailyResults,
         summary |->
           [firstCritical1HrDay |->
              IF critIdx(dailyResults) >= 1 THEN dailyResults[critIdx(dailyResults)].day
              ELSE Null,
            final1Hr |-> IF Len(dailyResults) # 0
                         THEN dailyResults[Len(dailyResults)].moisture1Hr ELSE prev1,
            final10Hr |-> IF Len(dailyResults) # 0
                          THEN dailyResults[Len(dailyResults)].moisture10Hr ELSE prev10]])

\* ============================================ src/unnamed/part_001
\* r * (4.0 + 0.2 * tC) + (r ** 2) * (0.5 + 0.01 * tC)
emcPercentFormula(tC, r) ==
    Add(Mul(r, Add(Fx(4, 1), Mul(Fx(2, 10), tC))),
        Mul(Mul(r, r), Add(Fx(5, 10), Mul(Fx(1, 100), tC))))

emcPercent(tempF, rh) ==
    LET emc == emcPercentFormula(Div(Mul(Sub(tempF, Fx(32, 1)), Fx(5, 1)), Fx(9, 1)),
                                 Div(MathMax(Fx(0, 1), MathMin(Fx(100, 1), rh)), Fx(100, 1)))
    IN  MathMax(Fx(1, 1), MathMin(Fx(35, 1), emc))

\* updateTowardEMC with the sign of the exponent lost: the distance to the EMC grows
updateTowardEMC_Growing(mPrev, emc, dtHours, tauHours) ==
    IF Le(tauHours, Fx(0, 1)) THEN emc
    ELSE Add(emc, Mul(Sub(mPrev, emc), MathExp(Div(dtHours, tauHours))))

\* updateTowardEMC that short-circuits only for tau < 0
updateTowardEMC_StrictTau(mPrev, emc, dtHours, tauHours) ==
    IF Lt(tauHours, Fx(0, 1)) THEN emc
    ELSE Add(emc, Mul(Sub(mPrev, emc), MathExp(Div(Neg(dtHours), tauHours))))

updateTowardEMC(mPrev, emc, dtHours, tauHours) ==
    IF Le(tauHours, Fx(0, 1)) THEN emc
    ELSE Add(emc, Mul(Sub(mPrev, emc), MathExp(Div(Neg(dtHours), tauHours))))

\* the if / else if chain over r = Math.max(0.0, rainInches)
rainBucket(r) ==
    IF Lt(r, Fx(10, 100))
    THEN [m1 |-> Fx(18, 1), m10 |-> Fx(15, 1), m100 |-> Fx(14, 1)]
    ELSE IF Lt(r, Fx(30, 100))
    THEN [m1 |-> Fx(22, 1), m10 |-> Fx(17, 1), m100 |-> Fx(145, 10)]
    ELSE IF Lt(r, Fx(75, 100))
    THEN [m1 |-> Fx(26, 1), m10 |-> Fx(20, 1), m100 |-> Fx(16, 1)]
    ELSE [m1 |-> Fx(30, 1), m10 |-> Fx(25, 1), m100 |-> Fx(20, 1)]

\* the chain with "<=" thresholds
rainBucket_Inclusive(r) ==
    IF Le(r, Fx(10, 100))
    THEN [m1 |-> Fx(18, 1), m10 |-> Fx(15, 1), m100 |-> Fx(14, 1)]
    ELSE IF Le(r, Fx(30, 100))
    THEN [m1 |-> Fx(22, 1), m10 |-> Fx(17, 1), m100 |-> Fx(145, 10)]
    ELSE IF Le(r, Fx(75, 100))
    THEN [m1 |-> Fx(26, 1), m10 |-> Fx(20, 1), m100 |-> Fx(16, 1)]
    ELSE [m1 |-> Fx(30, 1), m10 |-> Fx(25, 1), m100 |-> Fx(20, 1)]

\* initialMoistureFromRain with "<=" thresholds
initialMoistureFromRain_Inclusive(rainInches) ==
    rainBucket_Inclusive(MathMax(Fx(0, 1), rainInches))

initialMoistureFromRain(rainInches) == rainBucket(MathMax(Fx(0, 1), rainInches))

FUEL_PRESETS ==
    [pasture_grass |->
        [name |-> Text("Pasture Grass"), baseROS |-> Fx(20, 1),
         windSensitivity |-> Fx(130, 100), moistureSensitivity |-> Fx(170, 100)],
     hardwood_deadfall |->
        [name |-> Text("Hardwood Dead Fall"), baseROS |-> Fx(35, 10),
         windSensitivity |-> Fx(55, 100), moistureSensitivity |-> Fx(130, 100)],
     leaf_pine_litter |->
        [name |-> Text("Leaf & Pine Litter"), baseROS |-> Fx(6, 1),
         windSensitivity |-> Fx(85, 100), moistureSensitivity |-> Fx(140, 100)]]

\* the functions an object literal inherits from Object.prototype, each with
\* the name it carries
ObjectPrototypeMembers ==
    [constructor |-> "Object", toString |-> "toString", valueOf |-> "valueOf",
     hasOwnProperty |-> "hasOwnProperty"]

\* FUEL_PRESETS[fuelType]: an own property, else one inherited through the
\* prototype chain, else undefined
FuelPresetsGet(fuelType) ==
    IF fuelType.s[1] \in DOMAIN FUEL_PRESETS THEN Obj(FUEL_PRESETS[fuelType.s[1]])
    ELSE IF fuelType.s[1] \in DOMAIN ObjectPrototypeMembers
    THEN Obj([name |-> Text(ObjectPrototypeMembers[fuelType.s[1]])])
    ELSE Undefined

\* moistureMultiplier without its clamp
moistureMultiplier_Unclamped(m1, mRef, k) ==
    MathExp(Div(Mul(Neg(k), Sub(m1, mRef)), Fx(10, 1)))

\* moistureMultiplier that grows with the moisture
moistureMultiplier_Increasing(m1, mRef, k) ==
    LET mult == MathExp(Div(Mul(k, Sub(m1, mRef)), Fx(10, 1)))
    IN  MathMax(Fx(5, 100), MathMin(Fx(25, 10), mult))

moistureMultiplier(m1, mRef, k) ==
    LET mult == MathExp(Div(Mul(Neg(k), Sub(m1, mRef)), Fx(10, 1)))
    IN  MathMax(Fx(5, 100), MathMin(Fx(25, 10), mult))

\* windMultiplier without the floor at zero of the wind above 5 mph
windMultiplier_NoDeadband(windMph0, sensitivity) ==
    LET windMph == MathMax(Fx(0, 1), windMph0)
        w    == Sub(windMph, Fx(5, 1))
        mult == Add(Fx(1, 1), Mul(sensitivity, MathPow(Div(w, Fx(25, 1)), Fx(115, 100))))
    IN  MathMax(Fx(5, 10), MathMin(Fx(4, 1), mult))

windMultiplier(windMph0, sensitivity) ==
    LET windMph == MathMax(Fx(0, 1), windMph0)
        w    == MathMax(Fx(0, 1), Sub(windMph, Fx(5, 1)))
        mult == Add(Fx(1, 1), Mul(sensitivity, MathPow(Div(w, Fx(25, 1)), Fx(115, 100))))
    IN  MathMax(Fx(5, 10), MathMin(Fx(4, 1), mult))

slopeMultiplier(slopePct0) ==
    LET slopePct == MathMax(Fx(0, 1), slopePct0)
        mult == Add(Fx(1, 1), Mul(Fx(2, 100), slopePct))
    IN  MathMax(Fx(1, 1), MathMin(Fx(25, 10), mult))

rosChPerHour(fuel, m1, windMph, slopePct0) ==
    LET slopePct == DefaultParam(slopePct0, Fx(0, 1))
        mRef == Fx(9, 1)
        mm == moistureMultiplier(m1, mRef, GetProp(fuel, "moistureSensitivity"))
        wm == windMultiplier(windMph, GetProp(fuel, "windSensitivity"))
        sm == slopeMultiplier(slopePct)
        ros == Mul(Mul(Mul(GetProp(fuel, "baseROS"), mm), wm), sm)
    IN  IF IsThrow(GetProp(fuel, "moistureSensitivity")) THEN Throw("TypeError")
        ELSE MathMax(Fx(1, 10), ros)

chPerHourToFtPerMin(chph) == Div(Mul(chph, Fx(66, 1)), Fx(60, 1))

\* the entry results.push appends for hour h
hourlyEntry(h, period, emc, m1, m10, m100, ros) ==
    [hour |-> h, period |-> period,
     emc |-> ToFixed(emc, 1),
     m1 |-> ToFixed(m1, 1),
     m10 |-> ToFixed(m10, 1),
     m100 |-> ToFixed(m100, 1),
     rosChPerHour |-> ToFixed(ros, 2),
     rosFtPerMin |-> ToFixed(chPerHourToFtPerMin(ros), 2)]

\* the locals st after hour h, given the hour's emc and the updated moistures
dryingPush(h, period, emc, m1, m10, m100, fuel, windMph, st) ==
    [st EXCEPT !.h = h + 1, !.m1 = m1, !.m10 = m10, !.m100 = m100,
               !.results = Append(st.results,
                                  hourlyEntry(h, period, emc, m1, m10, m100,
                                              rosChPerHour(fuel, m1, windMph, Fx(0, 1))))]

\* the hourly update with the 1-hour time lag applied to all three fuel classes
dryingUpdate_SameLag(h, period, emc, fuel, windMph, st) ==
    dryingPush(h, period, emc,
               updateTowardEMC(st.m1, emc, Fx(1, 1), Fx(1, 1)),
               updateTowardEMC(st.m10, emc, Fx(1, 1), Fx(1, 1)),
               updateTowardEMC(st.m100, emc, Fx(1, 1), Fx(1, 1)),
               fuel, windMph, st)

\* the three time-lag updates of an hour with equilibrium moisture emc
dryingUpdate(h, period, emc, fuel, windMph, st) ==
    dryingPush(h, period, emc,
               updateTowardEMC(st.m1, emc, Fx(1, 1), Fx(1, 1)),
               updateTowardEMC(st.m10, emc, Fx(1, 1), Fx(10, 1)),
               updateTowardEMC(st.m100, emc, Fx(1, 1), Fx(100, 1)),
               fuel, windMph, st)

\* the body of the hourly loops: one hour of drying at tempF and rh, from the
\* locals st (m1, m10, m100, results)
dryingHour(h, period, tempF, rh, fuel, windMph, st) ==
    dryingUpdate(h, period, emcPercent(tempF, rh), fuel, windMph, st)

\* the reduce callback keeping the entry with the larger 1-hr moisture
minM1Callback_Larger(min, cur) ==
    IF Gt(ParseFloat(cur.m1.s), ParseFloat(min.m1.s)) THEN cur ELSE min

\* the callback of results.reduce: (min, cur) => parseFloat(cur.m1) < parseFloat(min.m1) ? cur : min
minM1Callback(min, cur) ==
    IF Lt(ParseFloat(cur.m1.s), ParseFloat(min.m1.s)) THEN cur ELSE min

\* the value simulate24HourDrying returns
simulationResult(fuel, results, minM1Result) ==
    Obj([hourly |-> results,
         summary |-> [minM1Hour |-> minM1Result.hour,
                      minM1Value |-> minM1Result.m1,
                      maxROSchPerHour |-> minM1Result.rosChPerHour,
                      maxROSFtPerMin |-> minM1Result.rosFtPerMin,
                      endOfDayM1 |-> results[10].m1,
                      endOf24hM1 |-> results[24].m1,
                      fuelType |-> GetProp(fuel, "name")]])

\* the fuel simulate24HourDrying works with
simulationFuel(fuelType0) == FuelPresetsGet(DefaultParam(fuelType0, Text("leaf_pine_litter")))

\* ============================================ src/main.js
\* the text of x in a template literal and under String(x); a number is
\* written with as many decimals as it has, up to the four the model keeps
TemplateDecimals(v) ==
    IF v % Scale = 0 THEN 0
    ELSE IF (v % (Scale \div 10)) = 0 THEN 1
    ELSE IF (v % (Scale \div 100)) = 0 THEN 2
    ELSE IF (v % (Scale \div 1000)) = 0 THEN 3 ELSE 4
JsString(x) ==
    CASE x.k = "undefined" -> <<"u", "n", "d", "e", "f", "i", "n", "e", "d">>
      [] x.k = "null" -> <<"n", "u", "l", "l">>
      [] x.k = "nan" -> <<"N", "a", "N">>
      [] x.k = "inf" -> IF x.v > 0 THEN <<"I", "n", "f", "i", "n", "i", "t", "y">> ELSE <<"-">> \o <<"I", "n", "f", "i", "n", "i", "t", "y">>
      [] x.k = "str" -> x.s
      [] x.k = "num" ->
            IF x.v % Scale = 0
            THEN (IF x.v < 0 THEN <<"-">> ELSE <<>>) \o NatChars(Abs(x.v) \div Scale)
            ELSE ToFixed(x, TemplateDecimals(x.v)).s
      [] OTHER -> <<"[", "o", "b", "j", "e", "c", "t", " ", "O", "b", "j", "e", "c", "t", "]">>

\* Math.round: the nearest integer, the larger one of two equally near
MathRound(x) ==
    IF IsNum(ToNumber(x))
    THEN Num(((ToNumber(x).v + Scale \div 2) \div Scale) * Scale)
    ELSE ToNumber(x)

\* x == null
LooseNull(x) == x.k \in {"undefined", "null"}

\* o?.p
OptProp(o, p) == IF LooseNull(o) THEN Undefined ELSE GetProp(o, p)

\* the position of the first character of str that is a digit, 0 if none
FirstDigit(str) ==
    IF \E i \in 1..Len(str) : IsDigit(str[i])
    THEN CHOOSE i \in 1..Len(str) : IsDigit(str[i]) /\ \A j \in 1..(i - 1) : ~IsDigit(str[j])
    ELSE 0

\* the last position of the run of digits of str that starts at position i
DigitRunEnd(str, i) ==
    CHOOSE j \in i..Len(str) :
        /\ \A k \in i..j : IsDigit(str[k])
        /\ j = Len(str) \/ ~IsDigit(str[j + 1])

\* the first position after i whose character is not white space
SkipSpace(str, i) ==
    CHOOSE j \in (i + 1)..(Len(str) + 1) :
        /\ \A k \in (i + 1)..(j - 1) : str[k] = " "
        /\ j = Len(str) + 1 \/ str[j] # " "

\* where the digits of the second group of /(\d+)(?:\s*to\s*(\d+))?/i start
\* when the first group ends at position e; 0 when the optional part fails
SecondGroupStart(str, e) ==
    LET t == SkipSpace(str, e)
    IN  IF /\ t + 1 <= Len(str)
           /\ str[t] \in {"t", "T"}
           /\ str[t + 1] \in {"o", "O"}
           /\ SkipSpace(str, t + 1) <= Len(str)
           /\ IsDigit(str[SkipSpace(str, t + 1)])
        THEN SkipSpace(str, t + 1) ELSE 0

\* the value of the run of digits of str that starts at position i
DigitRunValue(str, i) == DigitsValue(SubSeq(str, i, DigitRunEnd(str, i)), 0)

\* parseWindMph after the two guards: the first group starts at position i
windFromMatch(str, i) ==
    IF SecondGroupStart(str, DigitRunEnd(str, i)) # 0
    THEN MathRound(Fx(DigitRunValue(str, i)
                      + DigitRunValue(str, SecondGroupStart(str, DigitRunEnd(str, i))), 2))
    ELSE Fx(DigitRunValue(str, i), 1)

parseWindMph(windSpeedStr) ==
    IF Not(windSpeedStr) THEN Null
    ELSE IF FirstDigit(JsString(windSpeedStr)) = 0 THEN Null
    ELSE windFromMatch(JsString(windSpeedStr), FirstDigit(JsString(windSpeedStr)))

\* showAlert and hideAlert on the page d, whose markup has the danger alert
showAlert(d, message) == [d EXCEPT !.alertMessage = message, !.alertHidden = FALSE]
hideAlert(d) == [d EXCEPT !.alertHidden = TRUE]

\* the two tests of calculateFireDanger on the readings t, h, w
dangerOf(t, h, w) ==
    IF \/ Lt(h, Fx(30, 1)) /\ Gt(t, Fx(75, 1)) /\ Gt(w, Fx(10, 1))
       \/ Lt(h, Fx(20, 1)) /\ Gt(w, Fx(15, 1))
    THEN "HIGH"
    ELSE IF (Lt(h, Fx(40, 1)) /\ Gt(t, Fx(70, 1))) \/ Gt(w, Fx(15, 1))
    THEN "MODERATE" ELSE "LOW"

dangerDescription(danger, cached) ==
    CASE danger = "HIGH" -> IF cached THEN "Critical conditions (cached weather)"
                            ELSE "Critical fire weather conditions"
      [] danger = "MODERATE" -> IF cached THEN "Elevated danger (cached weather)"
                                ELSE "Elevated fire danger"
      [] OTHER -> IF cached THEN "Using cached weather data" ELSE "Minimal fire danger"

\* the page after the classification danger: the alert of a HIGH level, the
\* level, its class and the description
dangerShown(d, danger, cached) ==
    [(IF danger = "HIGH"
      THEN showAlert(d, IF cached THEN "High fire danger (using cached weather)"
                        ELSE "High fire danger conditions detected")
      ELSE d)
     EXCEPT !.dangerLevel = danger,
            !.dangerClass = CASE danger = "HIGH" -> "stat-value fire-danger-high"
                              [] danger = "MODERATE" -> "stat-value fire-danger-moderate"
                              [] OTHER -> "stat-value fire-danger-low",
            !.dangerText = dangerDescription(danger, cached)]

\* the readings calculateFireDanger classifies
dangerTemp(tempF) == IF NumberIsFinite(tempF) THEN tempF ELSE Fx(70, 1)
dangerRH(rh) == IF NumberIsFinite(rh) THEN rh ELSE Fx(50, 1)
dangerWind(windMph) == IF NumberIsFinite(windMph) THEN windMph ELSE Fx(5, 1)

\* calculateFireDanger without its hideAlert()
calculateFireDanger_NoHide(d, tempF, rh, windMph, cached) ==
    dangerShown(d, dangerOf(dangerTemp(tempF), dangerRH(rh), dangerWind(windMph)), cached)

calculateFireDanger(d, tempF, rh, windMph, cached) ==
    dangerShown(hideAlert(d), dangerOf(dangerTemp(tempF), dangerRH(rh), dangerWind(windMph)),
                cached)

\* the readouts of renderFromNwsForecast for the period current with humidity
\* rh and wind mph, and the detail table of current and next
readoutsShown(d, current, next, rh, mph) ==
    [d EXCEPT
       !.tempValue = Str(JsString(GetProp(current, "temperature")) \o <<"deg", "F">>),
       !.humidityValue = IF LooseNull(rh) THEN Str(<<"N", "/", "A">>)
                         ELSE Str(JsString(MathRound(rh)) \o <<"%">>),
       !.windValue = IF LooseNull(mph) THEN Str(<<"N", "/", "A">>) ELSE Str(JsString(mph) \o <<" ", "m", "p", "h">>),
       !.windDirection = OrElse(GetProp(current, "windDirection"), Str(<<"emdash">>)),
       !.weatherTable = <<current, next>>]

renderPeriods(d, current, next, rh, mph, cached) ==
    calculateFireDanger(readoutsShown(d, current, next, rh, mph),
                        GetProp(current, "temperature"), rh, mph, cached)

\* periods[0] is undefined or null: current.temperature throws a TypeError
\* before anything is written
renderThrows(periods) == LooseNull(periods[1])

\* renderFromNwsForecast for a non-empty array periods whose first element is
\* an object; the degree sign and the dash are the characters "deg" and "emdash"
renderFromNwsForecast(d, periods, cached) ==
    renderPeriods(d, periods[1],
                  IF Len(periods) >= 2 THEN OrElse(periods[2], Null) ELSE Null,
                  OptProp(GetProp(periods[1], "relativeHumidity"), "value"),
                  parseWindMph(GetProp(periods[1], "windSpeed")),
                  cached)

\* const loading = () => { ... }: the four readouts back to their placeholders
loading(d) ==
    [d EXCEPT !.tempValue = Str(<<"-", "-", "deg", "F">>),
              !.humidityValue = Str(<<"-", "-", "%">>),
              !.windValue = Str(<<"-", "-", " ", "m", "p", "h">>),
              !.windDirection = Str(<<"-", "-">>)]

\* JSON.stringify of a value that came out of res.json(), and JSON.parse: a
\* text that is not JSON makes JSON.parse throw a SyntaxError
JSONStringify(value) == [k |-> "json", v |-> 0, s |-> <<>>, o |-> value]
JSONParse(text) == IF text.k = "json" THEN text.o ELSE Throw("SyntaxError")

\* data?.properties?.periods
periodsOf(data) == OptProp(OptProp(data, "properties"), "periods")

\* Array.isArray(periods) && periods.length
hasPeriods(periods) == ArrayIsArray(periods) /\ Len(periods.s) # 0

\* ---- the forecast embed and the FIRMS hotspots (both optional)
\* safeText and safeHTML on the page d, whose markup has the element
safeText(d, id, text) == [d EXCEPT ![id] = text]
safeHTML(d, id, html) == [d EXCEPT ![id] = html]

\* loadForecastEmbed's two ends: the embed shown, and the catch block's notice
embedShown(d, html) == safeHTML(d, "forecastContainer", html)
embedUnavailable(d) ==
    safeHTML(d, "forecastContainer", "<div class=error>Forecast embed unavailable right now.</div>")

\* String.prototype.split for a separator of one character: the pieces of str
\* from position i on, cur being the piece in progress
RECURSIVE SplitFrom(_, _, _, _)
SplitFrom(str, sep, i, cur) ==
    IF i > Len(str) THEN <<cur>>
    ELSE IF str[i] = sep THEN <<cur>> \o SplitFrom(str, sep, i + 1, <<>>)
    ELSE SplitFrom(str, sep, i + 1, Append(cur, str[i]))
Split(str, sep) == SplitFrom(str, sep, 1, <<>>)

\* parseFirmsCSV: the lines of the text, the trimmed headers of the first line,
\* and the row of a line's values (a later column of the same name wins)
csvLines(csvText) == Split(Trim(IF Not(csvText) THEN <<>> ELSE JsString(csvText)), "\n")
csvHeaders(lines) == [j \in 1..Len(Split(lines[1], ",")) |-> Trim(Split(lines[1], ",")[j])]
csvRow(headers, values) ==
    [h \in {headers[j] : j \in 1..Len(headers)} |->
        Str(Trim(values[CHOOSE j \in 1..Len(headers) :
                          /\ headers[j] = h
                          /\ \A l \in 1..Len(headers) : headers[l] = h => l <= j]))]
csvRows(headers, lines) ==
    [i \in 1..Len(lines) |-> csvRow(headers, Split(lines[i], ","))]
parseFirmsCSV(csvText) ==
    IF Len(csvLines(csvText)) < 2 THEN <<>>
    ELSE csvRows(csvHeaders(csvLines(csvText)),
                 SelectSeq(Tail(csvLines(csvText)),
                           LAMBDA line : Len(Split(line, ","))
                                           >= Len(csvHeaders(csvLines(csvText)))))

\* spot.latitude and the like: undefined when the row has no such column
spotProp(spot, p) == IF p \in DOMAIN spot THEN spot[p] ELSE Undefined
spotCoordinate(spot, p) ==
    IF IsUndefined(spotProp(spot, p)) THEN NaN ELSE ParseFloat(spotProp(spot, p).s)
\* the forEach callback of displayHotspots adds a circle for the spot
spotDrawn(spot) ==
    /\ NumberIsFinite(spotCoordinate(spot, <<"l", "a", "t", "i", "t", "u", "d", "e">>))
    /\ NumberIsFinite(spotCoordinate(spot, <<"l", "o", "n", "g", "i", "t", "u", "d", "e">>))
\* displayHotspots: the layer group is cleared and holds the circles drawn
displayHotspots(hotspots) == Cardinality({i \in 1..Len(hotspots) : spotDrawn(hotspots[i])})

\* the hotspot count of loadFIRMSData's two ends
detections(n) ==
    Str(NatChars(n) \o <<" ", "d", "e", "t", "e", "c", "t", "i", "o", "n">>
        \o (IF n # 1 THEN <<"s">> ELSE <<>>))
HotspotsUnavailable ==
    Str(<<"H", "o", "t", "s", "p", "o", "t", "s", " ", "u", "n", "a", "v", "a", "i", "l", "a", "b", "l", "e">>)
MapUnavailable ==
    Str(<<"M", "a", "p", " ", "u", "n", "a", "v", "a", "i", "l", "a", "b", "l", "e">>)
firmsUnavailable(d) == safeText(d, "hotspotCount", HotspotsUnavailable)
firmsShown(d, hotspots) == safeText(d, "hotspotCount", detections(Len(hotspots)))

\* =============================================================== dashboard.js
\* the first position from i on at which pat occurs in str, 0 if none
RECURSIVE IndexOfFrom(_, _, _)
IndexOfFrom(str, pat, i) ==
    IF i + Len(pat) - 1 > Len(str) THEN 0
    ELSE IF SubSeq(str, i, i + Len(pat) - 1) = pat THEN i
    ELSE IndexOfFrom(str, pat, i + 1)
\* String.prototype.includes
Includes(str, pat) == IndexOfFrom(str, pat, 1) # 0
\* str.split(pat)[1]: the second piece, undefined when pat does not occur
SecondPiece(str, pat) ==
    IF IndexOfFrom(str, pat, 1) = 0 THEN Undefined
    ELSE IF IndexOfFrom(str, pat, IndexOfFrom(str, pat, 1) + Len(pat)) = 0
    THEN Str(SubSeq(str, IndexOfFrom(str, pat, 1) + Len(pat), Len(str)))
    ELSE Str(SubSeq(str, IndexOfFrom(str, pat, 1) + Len(pat),
                    IndexOfFrom(str, pat, IndexOfFrom(str, pat, 1) + Len(pat)) - 1))

\* parseFloat(x) || d: parseFloat of a number or a string, d when it is NaN or 0
parseFloatOr(x, d) ==
    IF x.k = "num" THEN (IF x.v = 0 THEN d ELSE x)
    ELSE IF x.k = "str" /\ IsNum(ParseFloat(x.s)) /\ ParseFloat(x.s).v # 0 THEN ParseFloat(x.s)
    ELSE d

\* the tests of getVADOFDangerLevel on the numbers t, h, w
vadofLevel(t, h, w) ==
    IF (Le(h, Fx(25, 1)) /\ Ge(w, Fx(15, 1))) \/ (Le(h, Fx(20, 1)) /\ Ge(t, Fx(85, 1)))
    THEN "EXTREME"
    ELSE IF Le(h, Fx(30, 1)) /\ Ge(w, Fx(10, 1)) THEN "HIGH"
    ELSE IF Le(h, Fx(45, 1)) \/ Ge(w, Fx(10, 1)) THEN "MODERATE"
    ELSE "LOW"
vadofColor(level) ==
    CASE level = "EXTREME" -> "#cc3300"
      [] level = "HIGH" -> "#ff6600"
      [] level = "MODERATE" -> "#ffc107"
      [] OTHER -> "#28a745"
\* getVADOFDangerLevel for a wind that is a string
getVADOFDangerLevel(temp, rh, wind) ==
    vadofLevel(parseFloatOr(temp, Fx(70, 1)), parseFloatOr(rh, Fx(70, 1)),
               parseFloatOr(Str(Split(wind.s, " ")[1]), Fx(5, 1)))

\* the catch block of fetchWeather
weatherFallback ==
    [label |-> Str(<<"N", "/", "A">>), temp |-> Str(<<"N", "/", "A">>), rh |-> Str(<<"N", "/", "A">>),
     wind |-> Str(<<"N", "/", "A">>), dir |-> Str(<<"N", "/", "A">>), danger |-> "UNKNOWN",
     dangerColor |-> "#6c757d"]
\* the wind speed fetchWeather reports for the period now
windSpeedStr(now) ==
    IF Includes(GetProp(now, "windSpeed").s, <<"t", "o">>)
    THEN SecondPiece(GetProp(now, "windSpeed").s, <<" ", "t", "o", " ">>)
    ELSE GetProp(now, "windSpeed")
weatherRh(now) ==
    OrElse(OptProp(GetProp(now, "relativeHumidity"), "value"), Str(<<"N", "/", "A">>))
weatherOf(now, wind) ==
    [label |-> OrElse(GetProp(now, "shortForecast"), Str(<<"N", "/", "A">>)),
     temp |-> GetProp(now, "temperature"), rh |-> weatherRh(now), wind |-> wind,
     dir |-> GetProp(now, "windDirection"),
     danger |-> getVADOFDangerLevel(GetProp(now, "temperature"), weatherRh(now), wind),
     dangerColor |-> vadofColor(getVADOFDangerLevel(GetProp(now, "temperature"),
                                                     weatherRh(now), wind))]
\* fetchWeather once the awaits are through: now is periods[0] of the hourly
\* forecast, or what was thrown on the way; a wind speed that is no string, or
\* has "to" without " to ", throws a TypeError
fetchWeather(now) ==
    IF IsThrow(now) \/ LooseNull(now) THEN weatherFallback
    ELSE IF GetProp(now, "windSpeed").k # "str" THEN weatherFallback
    ELSE IF windSpeedStr(now).k # "str" THEN weatherFallback
    ELSE weatherOf(now, windSpeedStr(now))

\* const counties
counties == <<"Amelia", "Nottoway", "Dinwiddie", "Prince George">>

\* the FeatureCollection of fetchHotspots' catch block
hotspotsFallback == <<>>
\* the features turf finds within 20 km of the county
hotspotsNear(features, county) == SelectSeq(features, LAMBDA f : county \in f.near)

\* renderCard: the card appended to the list
renderCard(county, weather, hotspotsCount) ==
    [name |-> county, weather |-> weather, hotspots |-> hotspotsCount,
     countColor |-> IF hotspotsCount > 0 THEN "#cc3300" ELSE "inherit"]
\* the for loop of refreshData over the counties, from county i on
RECURSIVE cardsFrom(_, _, _, _)
cardsFrom(cards, fireData, weatherData, i) ==
    IF i > Len(counties) THEN cards
    ELSE cardsFrom(Append(cards, renderCard(counties[i], weatherData[i],
                                            Len(hotspotsNear(fireData, counties[i])))),
                   fireData, weatherData, i + 1)

\* showHotspotsOnMap: L.map('map') on a container that holds a map already
\* throws; otherwise the map is made with the fire and weather markers
showHotspotsOnMap(b, geojson, weatherData) ==
    IF b.map # "none"
    THEN [b EXCEPT !.initCalls = @ + 1, !.thrown = "Map container is already initialized."]
    ELSE [b EXCEPT !.map = "map", !.initCalls = @ + 1, !.fireMarkers = Len(geojson),
                   !.weatherMarkers = Len(counties), !.thrown = "none"]

\* ================================================================ the calls
\* pc:   "idle", "running" (in simulate24HourDrying's loops), "reducing" (in its
\*       results.reduce), "forEach" (in runModel's entries.forEach) or "returned"
\*       On the dashboard page (src/main.js): "fetching" (loadNWSForecast awaits
\*       fetchWithTimeout), "parsing" (it awaits res.json()), "settled" (its
\*       promise is settled)
\* op:   the function called, args its arguments, ret what it returned
\* loc:  the locals of the call in progress
\* dom:  the dashboard's readouts, detail table, fire-danger level and danger alert
\* localStorage: the item under CONFIG.cacheKeyNws and how the browser's
\*       storage behaves (mode)
\* leaflet: whether the Leaflet script defined L, the hotspotLayer initMapSafe
\*       made ("null" or "layerGroup") and the circles that layer group holds
\* loadAll: the loadAllData call in progress: "idle", "awaiting" (at its await
\*       of Promise.allSettled) or "resolved"
\* embed: loadForecastEmbed: "idle", "fetching", "reading" (it awaits
\*       res.text()) or "settled"
\* firms: the loadFIRMSData calls in flight, those awaiting fetchWithTimeout and
\*       those awaiting res.text(), whether a call's promise was rejected, and
\*       how the call that ended last ended: "none", "failed" or "shown"
VARIABLES pc, op, args, ret, loc, dom, localStorage, leaflet, loadAll, embed, firms, board
vars == <<pc, op, args, ret, loc, dom, localStorage, leaflet, loadAll, embed, firms, board>>
otherTasks == <<leaflet, loadAll, embed, firms>>
mainPage == <<dom, localStorage, otherTasks>>
pageVars == <<mainPage, board>>

\* h, m1, m10, m100, results: simulate24HourDrying's variables; i and min: the
\* position of results.reduce and the index in results of its accumulator.
\* In runModel m1 and m10 are prev1 and prev10, results is results.dailyResults
\* and i the number of entries forEach has visited
NoLocals ==
    [h |-> 0, m1 |-> Undefined, m10 |-> Undefined, m100 |-> Undefined, results |-> <<>>,
     i |-> 0, min |-> 0]

\* ---- bounds of the input grids
TempSteps  == 8
RhSteps    == 10
MaxMoist   == 4
MaxHalfHours == 4
RainSteps  == 16
MaxWind5   == 8
MaxM1      == 8
MaxDays    == 3
\* loadFIRMSData calls in flight at once
MaxInFlight == 1
\* the most runs of dashboard.js's refreshData
MaxRefresh == 2

Whole(n) == Num(n * Scale)

\* -50 .. 150 degrees F
FiniteTemps == {Whole((200 * i) \div TempSteps - 50) : i \in 0..TempSteps}
\* 0 .. 100 percent
FiniteRH == {Whole((100 * i) \div RhSteps) : i \in 0..RhSteps}
OutOfRangeRH == {Whole(-10), Whole(120)}
\* what a caller may pass in place of a number
Malformed == {NaN, PosInf, NegInf, Undefined, Null,
              Str(<<"a", "b", "c">>), Str(<<>>), Str(<<" ", "4", "5", " ">>)}
\* moistures and equilibrium moistures: multiples of 8.25 and of 4.7
MoistureValues == {Fx(825 * i, 100) : i \in 0..MaxMoist} \cup {Fx(47 * i, 10) : i \in 0..MaxMoist}
\* 0, 0.5, 1, ... hours, the default 12, and a negative elapsed time
HourValues == {Fx(h, 2) : h \in 0..MaxHalfHours} \cup {Whole(12), Whole(-1)}
TauValues == {Whole(-3), Whole(0), Whole(1), Whole(10), Whole(100)}
\* 0, 0.05, 0.10, ... inches, and the last value below each threshold
RainValues == {Fx(5 * i, 100) : i \in 0..RainSteps}
              \cup {Num(999), Num(2999), Num(7499), Whole(-1), Whole(3)}
FuelKeys == {Text("pasture_grass"), Text("hardwood_deadfall"), Text("leaf_pine_litter"),
             Text("oak"), Text("constructor")}
WindValues == {Whole(5 * i) : i \in 0..MaxWind5} \cup {Whole(-5), Whole(200)}
M1Values == {Whole(3 * i) : i \in 0..MaxM1} \cup {Whole(-20), Whole(40), Whole(60)}
SlopeValues == {Whole(-10), Whole(0), Whole(30), Whole(75), Whole(200), Undefined}

\* forecast entries: a labelled hot dry day, an unlabelled cool damp night, an
\* entry with an empty label and no readings, one with readings out of range,
\* a null entry, and one whose readings are strings
DayEntries ==
    {Obj([label |-> Str(<<"M", "o", "n">>), temp |-> Whole(95), rh |-> Whole(10),
          wind |-> Whole(12), hours |-> Whole(12)]),
     Obj([temp |-> Whole(50), rh |-> Whole(90), wind |-> Whole(3), hours |-> Whole(6)]),
     Obj([label |-> Str(<<>>)]),
     Obj([label |-> Str(<<"T", "h", "u">>), temp |-> Whole(80), rh |-> Whole(120),
          wind |-> Whole(-4), hours |-> Whole(-5)]),
     Null,
     Obj([label |-> Str(<<"F", "r", "i">>), temp |-> Str(<<"8", "5">>),
          rh |-> Str(<<" ", "2", "0", " ">>), wind |-> Str(<<"a", "b", "c">>),
          hours |-> NaN])}
\* the forecastEntries argument: arrays of up to MaxDays entries, or no array
ForecastInputs ==
    {Array(seq) : seq \in UNION {[1..n -> DayEntries] : n \in 0..MaxDays}}
    \cup {Undefined, Null, Str(<<"x">>)}
\* the initial1hr and initial10hr arguments: two numbers, or nothing usable
InitialMoistures == {<<Whole(20), Whole(12)>>, <<Undefined, Str(<<"a", "b", "c">>)>>}

\* days of steady weather: hot and dry or cool and damp, with an hour, six
\* hours or twelve between the steps
SteadyDays ==
    {Obj([label |-> Str(<<"d", "a", "y">>), temp |-> Whole(t), rh |-> Whole(h), wind |-> Whole(5),
          hours |-> Whole(n)]) : t \in {50, 95}, h \in {10, 90}, n \in {1, 6, 12}}
\* initial moistures above and below the equilibrium, and none given
SteadyMoistures ==
    {<<Whole(20), Whole(12)>>, <<Whole(2), Whole(30)>>, <<Undefined, Undefined>>}

\* the elements of the dashboard page as its markup has them, before main.js
\* writes to them; the alert carries the class hidden, which showAlert removes
PageMarkup ==
    [tempValue |-> Str(<<"markup">>), humidityValue |-> Str(<<"markup">>),
     windValue |-> Str(<<"markup">>), windDirection |-> Str(<<"markup">>),
     weatherTable |-> <<>>, dangerLevel |-> "markup", dangerClass |-> "markup",
     dangerText |-> "markup", alertHidden |-> TRUE, alertMessage |-> "markup",
     lastUpdate |-> "markup", forecastContainer |-> "markup",
     hotspotCount |-> Str(<<"markup">>)]

\* forecast periods of the NWS feed: a hot, dry and windy one, a cool and damp
\* one, one without humidity, wind speed and direction, one without a temperature
PeriodHot ==
    Obj([temperature |-> Whole(85), relativeHumidity |-> Obj([value |-> Whole(20)]),
         windSpeed |-> Str(<<"1", "0", " ", "t", "o", " ", "2", "0", " ", "m", "p", "h">>), windDirection |-> Str(<<"S", "W">>)])
PeriodCool ==
    Obj([temperature |-> Whole(60), relativeHumidity |-> Obj([value |-> Whole(70)]),
         windSpeed |-> Str(<<"5", " ", "m", "p", "h">>), windDirection |-> Str(<<"N">>)])
PeriodBare ==
    Obj([temperature |-> Whole(78), relativeHumidity |-> Obj([value |-> Null]),
         windSpeed |-> Null, windDirection |-> Str(<<>>)])
PeriodNoTemp ==
    Obj([temperature |-> Null, relativeHumidity |-> Obj([value |-> Fx(355, 10)]),
         windSpeed |-> Str(<<"2", "0", " ", "m", "p", "h">>), windDirection |-> Str(<<"W">>)])
FeedPeriods == {PeriodHot, PeriodCool, PeriodBare, PeriodNoTemp}
Forecast(periods) == Obj([properties |-> Obj([periods |-> Array(periods)])])
\* response bodies with a non-empty periods array
GoodBodies == {Forecast(<<p>>) : p \in FeedPeriods} \cup {Forecast(<<PeriodHot, PeriodCool>>)}
\* response bodies without one: null, an error document, no periods, periods no array
BadBodies ==
    {Null, Obj([status |-> Whole(503)]), Forecast(<<>>),
     Obj([properties |-> Obj([periods |-> Str(<<"n", "o", "n", "e">>)])])}
\* what the storage may hold under the cache key when the page loads: nothing,
\* the empty string, a text that is not JSON, a forecast without periods, and
\* forecasts cached by an earlier visit
StoredItems ==
    {Null, Str(<<>>), Str(<<"n", "o", "t", " ", "j", "s", "o", "n">>), JSONStringify(Forecast(<<>>)),
     JSONStringify(Forecast(<<PeriodCool>>)), JSONStringify(Forecast(<<PeriodHot>>))}
\* how the browser's storage behaves: "ok"; "full", setItem throws a
\* QuotaExceededError; "blocked", every access to localStorage throws a SecurityError
StorageModes == {"ok", "full", "blocked"}
FetchOutcomes == {"network error", "timeout", "http error", "ok"}
\* what res.text() gives loadFIRMSData: nothing, one detection, or three lines
\* of which the second has no latitude and the third too few values
CsvHeader ==
    <<"l", "a", "t", "i", "t", "u", "d", "e", ",", "l", "o", "n", "g", "i", "t", "u", "d", "e", ",",
      " ", "c", "o", "n", "f", "i", "d", "e", "n", "c", "e">>
CsvTexts ==
    {Str(<<>>),
     Str(CsvHeader \o <<"\n", "3", "6", ".", "8", ",", "-", "7", "9", ".", "1", ",", "h", "i", "g", "h", "\n">>),
     Str(CsvHeader \o <<"\n", "3", "6", ".", "9", ",", "-", "7", "9", ",", "l", "o", "w">>
                   \o <<"\n", "n", "/", "a", ",", "-", "7", "9", ",", "l", "o", "w">>
                   \o <<"\n", "3", "6", ".", "7", ",", "-", "7", "9">>)}
\* parseFirmsCSV of each of these texts, and displayHotspots of its rows
FirmsHotspots == [csvText \in CsvTexts |-> parseFirmsCSV(csvText)]
FirmsCircles == [csvText \in CsvTexts |-> displayHotspots(FirmsHotspots[csvText])]
\* what res.text() gives loadForecastEmbed
EmbedTexts == {"<p>forecast</p>"}

\* the page of dashboard.js before window.onload: no cards, no map on the
\* container 'map'; initCalls counts the calls of L.map('map'), runs the calls of
\* refreshData, thrown is what the last run of refreshData rejected with
NoBoard ==
    [cards |-> <<>>, map |-> "none", initCalls |-> 0, fireMarkers |-> 0,
     weatherMarkers |-> 0, runs |-> 0, thrown |-> "none"]
\* the FIRMS feed's features, each with the counties within 20 km of it
FeatureCollections ==
    {<<>>, <<[near |-> {"Amelia"}]>>, <<[near |-> {"Amelia", "Nottoway"}], [near |-> {}]>>}
\* what fetchHotspots' awaits give: the feed's features, or a rejection
HotspotOutcomes ==
    {[ok |-> TRUE, features |-> fc] : fc \in FeatureCollections}
        \cup {[ok |-> FALSE, features |-> <<>>]}
\* what fetchWeather's awaits give: periods[0] of the hourly forecast, or a rejection
WeatherOutcomes == {PeriodHot, PeriodCool, PeriodBare, Throw("fetch")}
\* a fetchWeather promise that is not settled yet
Pending == [danger |-> "pending"]

Init ==
    /\ pc = "idle"
    /\ op = "none"
    /\ args = <<>>
    /\ ret = Undefined
    /\ loc = NoLocals
    /\ dom = PageMarkup
    /\ localStorage = [mode |-> "ok", item |-> Null]
    /\ leaflet = [L |-> FALSE, hotspotLayer |-> "null", circles |-> 0]
    /\ loadAll = "idle"
    /\ embed = "idle"
    /\ firms = [fetching |-> 0, reading |-> 0, rejected |-> FALSE, last |-> "none"]
    /\ board = NoBoard

CallComputeEMC ==
    /\ UNCHANGED pageVars
    /\ pc = "idle"
    /\ \E tempF \in FiniteTemps \cup Malformed, rh \in FiniteRH \cup OutOfRangeRH \cup Malformed :
           /\ pc' = "returned"
           /\ op' = "computeEMC"
           /\ loc' = NoLocals
           /\ args' = [tempF |-> tempF, rh |-> rh]
           /\ ret' = computeEMC(tempF, rh)

CallEmcPercent ==
    /\ UNCHANGED pageVars
    /\ pc = "idle"
    /\ \E tempF \in FiniteTemps \cup Malformed, rh \in FiniteRH \cup OutOfRangeRH \cup Malformed :
           /\ pc' = "returned"
           /\ op' = "emcPercent"
           /\ loc' = NoLocals
           /\ args' = [tempF |-> tempF, rh |-> rh]
           /\ ret' = emcPercent(tempF, rh)

CallStepMoisture ==
    /\ UNCHANGED pageVars
    /\ pc = "idle"
    /\ \E initial \in MoistureValues \cup {NaN, Undefined}, emc \in MoistureValues \cup {NaN, Undefined},
          hours \in HourValues \cup {Undefined}, timeLag \in TauValues \cup {Undefined} :
           /\ pc' = "returned"
           /\ op' = "stepMoisture"
           /\ loc' = NoLocals
           /\ args' = [mPrev |-> initial, emc |-> emc, hours |-> hours, tau |-> timeLag]
           /\ ret' = stepMoisture(initial, emc, hours, timeLag)

CallUpdateTowardEMC ==
    /\ UNCHANGED pageVars
    /\ pc = "idle"
    /\ \E mPrev \in MoistureValues \cup {NaN, Undefined}, emc \in MoistureValues \cup {NaN, Undefined},
          dtHours \in HourValues \cup {Undefined}, tauHours \in TauValues \cup {Undefined} :
           /\ pc' = "returned"
           /\ op' = "updateTowardEMC"
           /\ loc' = NoLocals
           /\ args' = [mPrev |-> mPrev, emc |-> emc, hours |-> dtHours, tau |-> tauHours]
           /\ ret' = updateTowardEMC(mPrev, emc, dtHours, tauHours)

CallInitialMoistureFromRain ==
    /\ UNCHANGED pageVars
    /\ pc = "idle"
    /\ \E rainInches \in RainValues \cup {NaN} :
           /\ pc' = "returned"
           /\ op' = "initialMoistureFromRain"
           /\ loc' = NoLocals
           /\ args' = [rain |-> rainInches]
           /\ ret' = Obj(initialMoistureFromRain(rainInches))

\* rosChPerHour(FUEL_PRESETS[fuelType], m1, windMph, slopePct)
CallRosChPerHour ==
    /\ UNCHANGED pageVars
    /\ pc = "idle"
    /\ \E fuelType \in FuelKeys, m1 \in M1Values, windMph \in WindValues, slopePct \in SlopeValues :
           /\ pc' = "returned"
           /\ op' = "rosChPerHour"
           /\ loc' = NoLocals
           /\ args' = [fuelType |-> fuelType, m1 |-> m1, wind |-> windMph, slope |-> slopePct]
           /\ ret' = rosChPerHour(FuelPresetsGet(fuelType), m1, windMph, slopePct)

CallSimulate24HourDrying ==
    /\ UNCHANGED pageVars
    /\ pc = "idle"
    /\ \E dayTempF \in {Whole(70), Whole(90)}, dayRHmin \in {Whole(15), Whole(40)},
          nightTempF \in {Whole(50)}, nightRHmax \in {Whole(60), Whole(90)},
          rainInches \in {Whole(0), Fx(5, 10)}, windMph \in {Whole(5), Whole(15)},
          fuelType \in FuelKeys \cup {Undefined} :
           LET fuel    == simulationFuel(fuelType)
               initial == initialMoistureFromRain(rainInches)
           IN  /\ op' = "simulate24HourDrying"
               /\ args' = [dayTempF |-> dayTempF, dayRHmin |-> dayRHmin,
                           nightTempF |-> nightTempF, nightRHmax |-> nightRHmax,
                           rain |-> rainInches, wind |-> windMph, fuelType |-> fuelType]
               /\ IF Not(fuel)
                  THEN pc' = "returned" /\ ret' = Null /\ loc' = NoLocals
                  ELSE /\ pc' = "running"
                       /\ ret' = Undefined
                       /\ loc' = [NoLocals EXCEPT !.m1 = initial.m1, !.m10 = initial.m10,
                                                   !.m100 = initial.m100]

\* for (let h = 0; h < 10; h++): an hour at the day temperature and minimum RH
SimulateDayHour ==
    /\ UNCHANGED pageVars
    /\ pc = "running"
    /\ loc.h < 10
    /\ loc' = dryingHour(loc.h, "day", args.dayTempF, args.dayRHmin,
                         simulationFuel(args.fuelType), args.wind, loc)
    /\ UNCHANGED <<pc, op, args, ret>>

\* for (let h = 10; h < 24; h++): an hour at the night temperature and maximum RH
SimulateNightHour ==
    /\ UNCHANGED pageVars
    /\ pc = "running"
    /\ loc.h >= 10
    /\ loc.h < 24
    /\ loc' = dryingHour(loc.h, "night", args.nightTempF, args.nightRHmax,
                         simulationFuel(args.fuelType), args.wind, loc)
    /\ UNCHANGED <<pc, op, args, ret>>

\* results.reduce(...) without an initial value: the accumulator starts as the
\* first entry and the callback runs from the second
SimulateReduceStart ==
    /\ UNCHANGED pageVars
    /\ pc = "running"
    /\ loc.h >= 24
    /\ pc' = "reducing"
    /\ loc' = [loc EXCEPT !.min = 1, !.i = 2]
    /\ UNCHANGED <<op, args, ret>>

SimulateReduceStep ==
    /\ UNCHANGED pageVars
    /\ pc = "reducing"
    /\ loc.i <= Len(loc.results)
    /\ loc' = [loc EXCEPT
                 !.min = IF minM1Callback(loc.results[loc.min], loc.results[loc.i])
                            = loc.results[loc.i]
                         THEN loc.i ELSE loc.min,
                 !.i = loc.i + 1]
    /\ UNCHANGED <<pc, op, args, ret>>

SimulateReturn ==
    /\ UNCHANGED pageVars
    /\ pc = "reducing"
    /\ loc.i > Len(loc.results)
    /\ pc' = "returned"
    /\ ret' = simulationResult(simulationFuel(args.fuelType), loc.results,
                               loc.results[loc.min])
    /\ UNCHANGED <<op, args, loc>>

CallRunModel ==
    /\ UNCHANGED pageVars
    /\ pc = "idle"
    /\ \E initial \in InitialMoistures, forecastEntries \in ForecastInputs :
           /\ pc' = "forEach"
           /\ op' = "runModel"
           /\ args' = [initial1hr |-> initial[1], initial10hr |-> initial[2],
                       forecastEntries |-> forecastEntries]
           /\ ret' = Undefined
           /\ loc' = [NoLocals EXCEPT !.m1 = safeParse(initial[1], Fx(8, 1)),
                                       !.m10 = safeParse(initial[2], Fx(10, 1))]

\* one call of the forEach callback
RunModelEntry ==
    /\ UNCHANGED pageVars
    /\ pc = "forEach"
    /\ loc.i < Len(runModelEntries(args.forecastEntries))
    /\ loc' = runModelPush(loc, dailyResult(runModelEntries(args.forecastEntries)[loc.i + 1],
                                            loc.i, loc.m1, loc.m10))
    /\ UNCHANGED <<pc, op, args, ret>>

RunModelReturn ==
    /\ UNCHANGED pageVars
    /\ pc = "forEach"
    /\ loc.i >= Len(runModelEntries(args.forecastEntries))
    /\ pc' = "returned"
    /\ ret' = runModelResults(safeParse(args.initial1hr, Fx(8, 1)),
                              safeParse(args.initial10hr, Fx(10, 1)),
                              loc.results, loc.m1, loc.m10)
    /\ UNCHANGED <<op, args, loc>>

\* runModel on a forecast that repeats one day for as long as wanted: args
\* holds the day once, loc.results the result pushed last
CallRunModelSteady ==
    /\ UNCHANGED pageVars
    /\ pc = "idle"
    /\ \E initial \in SteadyMoistures, day \in SteadyDays :
           /\ pc' = "forEach"
           /\ op' = "runModel"
           /\ args' = [initial1hr |-> initial[1], initial10hr |-> initial[2],
                       forecastEntries |-> Array(<<day>>)]
           /\ ret' = Undefined
           /\ loc' = [NoLocals EXCEPT !.m1 = safeParse(initial[1], Fx(8, 1)),
                                       !.m10 = safeParse(initial[2], Fx(10, 1))]

\* the forEach callback on the next copy of the day, up to its push
SteadyEntry ==
    /\ UNCHANGED pageVars
    /\ pc = "forEach"
    /\ pc' = "pushed"
    /\ loc' = [loc EXCEPT !.results = <<dailyResult(args.forecastEntries.s[1], 0,
                                                     loc.m1, loc.m10)>>]
    /\ UNCHANGED <<op, args, ret>>

\* the end of the callback: prev1 = m1; prev10 = m10
SteadyAdvance ==
    /\ UNCHANGED pageVars
    /\ pc = "pushed"
    /\ pc' = "forEach"
    /\ loc' = [loc EXCEPT !.m1 = loc.results[1].moisture1Hr,
                          !.m10 = loc.results[1].moisture10Hr]
    /\ UNCHANGED <<op, args, ret>>

\* the catch block of loadNWSForecast on the page d with the storage st: the
\* page it leaves and how the function's promise settles
nwsCatch(d, st) ==
    IF st.mode = "blocked" THEN [dom |-> d, ret |-> Throw("SecurityError")]
    ELSE IF /\ ~Not(st.item)
            /\ ~IsThrow(JSONParse(st.item))
            /\ hasPeriods(periodsOf(JSONParse(st.item)))
            /\ ~renderThrows(periodsOf(JSONParse(st.item)).s)
    THEN [dom |-> renderFromNwsForecast(d, periodsOf(JSONParse(st.item)).s, TRUE),
          ret |-> Undefined]
    ELSE [dom |-> showAlert(loading(d), "Weather feed unavailable (no cache)."),
          ret |-> Undefined]

\* the try block after res.json() gave data with a non-empty periods array;
\* the storage it leaves is nwsCached(data, st)
nwsCached(data, st) == IF st.mode = "ok" THEN [st EXCEPT !.item = JSONStringify(data)] ELSE st
nwsTry(d, data, st) ==
    IF st.mode # "ok" \/ renderThrows(periodsOf(data).s)
    THEN nwsCatch(d, nwsCached(data, st))
    ELSE [dom |-> renderFromNwsForecast(d, periodsOf(data).s, FALSE), ret |-> Undefined]

\* initMapSafe: the map and its layer group, when the Leaflet script defined L
initMapSafe(hasL) ==
    [L |-> hasL, hotspotLayer |-> IF hasL THEN "layerGroup" ELSE "null", circles |-> 0]
initMapShown(d, hasL) == IF hasL THEN d ELSE safeText(d, "hotspotCount", MapUnavailable)

\* loadFIRMSData up to its first await, or to its early return: the calls in
\* flight and the page it leaves
firmsAvailable(lf) == lf.hotspotLayer # "null" /\ lf.L
firmsStarted(f, lf) ==
    IF firmsAvailable(lf) THEN [f EXCEPT !.fetching = @ + 1] ELSE [f EXCEPT !.last = "failed"]
firmsStartShown(d, lf) == IF firmsAvailable(lf) THEN d ELSE firmsUnavailable(d)
InFlight(f) == f.fetching + f.reading
\* the catch block of loadFIRMSData: what it shows, and whether the call's
\* promise is rejected all the same
firmsCatch_Alert(d) ==
    [dom |-> showAlert(firmsUnavailable(d), "Hotspots unavailable"), rejected |-> FALSE]
firmsCatch(d) == [dom |-> firmsUnavailable(d), rejected |-> FALSE]

\* loadAllData up to its await: the time of the update, loadNWSForecast and
\* loadForecastEmbed up to their first await
lastUpdateShown(d) == safeText(d, "lastUpdate", "Last updated: now")

\* the page loads: the DOMContentLoaded handler calls initMapSafe and
\* loadAllData, sets the interval and the click handler of the refresh button;
\* the browser decides what the storage holds and how it behaves, the page's
\* scripts whether L is defined
DOMContentLoaded ==
    /\ pc = "idle"
    /\ \E mode \in StorageModes, item \in StoredItems, hasL \in BOOLEAN :
           /\ dom' = lastUpdateShown(initMapShown(PageMarkup, hasL))
           /\ localStorage' = [mode |-> mode, item |-> item]
           /\ leaflet' = initMapSafe(hasL)
    /\ pc' = "fetching"
    /\ op' = "loadNWSForecast"
    /\ args' = [fetch |-> "pending", body |-> Undefined]
    /\ ret' = Undefined
    /\ loc' = NoLocals
    /\ loadAll' = "awaiting"
    /\ embed' = "fetching"
    /\ UNCHANGED <<firms, board>>

\* setInterval(loadAllData, CONFIG.refreshIntervalMs): the next loadAllData,
\* after the one before is through
LoadAllData ==
    /\ pc = "settled"
    /\ loadAll = "resolved"
    /\ pc' = "fetching"
    /\ args' = [fetch |-> "pending", body |-> Undefined]
    /\ ret' = Undefined
    /\ dom' = lastUpdateShown(dom)
    /\ loadAll' = "awaiting"
    /\ embed' = "fetching"
    /\ UNCHANGED <<op, loc, localStorage, leaflet, firms, board>>

\* await fetchWithTimeout(...) settles: fetch rejects (network error, or the
\* abort of the timeout), or gives a response that is ok or not
NwsFetchSettled ==
    /\ pc = "fetching"
    /\ \E outcome \in FetchOutcomes :
           /\ args' = [args EXCEPT !.fetch = outcome]
           /\ IF outcome = "ok"
              THEN /\ pc' = "parsing"
                   /\ UNCHANGED <<ret, dom>>
              ELSE /\ pc' = "settled"
                   /\ ret' = nwsCatch(dom, localStorage).ret
                   /\ dom' = nwsCatch(dom, localStorage).dom
    /\ UNCHANGED <<op, loc, localStorage, otherTasks, board>>

\* await res.json() settles: it rejects on a body that is not JSON, or gives data
NwsJsonSettled ==
    /\ pc = "parsing"
    /\ \E data \in GoodBodies \cup BadBodies \cup {Throw("SyntaxError")} :
           /\ args' = [args EXCEPT !.body = data]
           /\ IF IsThrow(data) \/ ~hasPeriods(periodsOf(data))
              THEN /\ ret' = nwsCatch(dom, localStorage).ret
                   /\ dom' = nwsCatch(dom, localStorage).dom
                   /\ UNCHANGED localStorage
              ELSE /\ ret' = nwsTry(dom, data, localStorage).ret
                   /\ dom' = nwsTry(dom, data, localStorage).dom
                   /\ localStorage' = nwsCached(data, localStorage)
    /\ pc' = "settled"
    /\ UNCHANGED <<op, loc, otherTasks, board>>

\* loadForecastEmbed: await fetchWithTimeout(CONFIG.forecastURL) settles
EmbedFetchSettled ==
    /\ embed = "fetching"
    /\ \E outcome \in FetchOutcomes :
           IF outcome = "ok"
           THEN /\ embed' = "reading"
                /\ UNCHANGED dom
           ELSE /\ embed' = "settled"
                /\ dom' = embedUnavailable(dom)
    /\ UNCHANGED <<pc, op, args, ret, loc, localStorage, leaflet, loadAll, firms, board>>

\* loadForecastEmbed: await res.text() settles, with the text or rejected
EmbedTextSettled ==
    /\ embed = "reading"
    /\ \E html \in EmbedTexts \cup {"TypeError"} :
           dom' = IF html \in EmbedTexts THEN embedShown(dom, html) ELSE embedUnavailable(dom)
    /\ embed' = "settled"
    /\ UNCHANGED <<pc, op, args, ret, loc, localStorage, leaflet, loadAll, firms, board>>

\* loadAllData after its await: both loads are settled, fulfilled or rejected;
\* it calls loadFIRMSData without awaiting it and is through
AllSettled ==
    /\ loadAll = "awaiting"
    /\ pc = "settled"
    /\ embed = "settled"
    /\ firmsAvailable(leaflet) => InFlight(firms) < MaxInFlight
    /\ firms' = firmsStarted(firms, leaflet)
    /\ dom' = firmsStartShown(dom, leaflet)
    /\ loadAll' = "resolved"
    /\ UNCHANGED <<pc, op, args, ret, loc, localStorage, leaflet, embed, board>>

\* a click on the refresh button of the map: loadFIRMSData
RefreshMapClick ==
    /\ op = "loadNWSForecast"
    /\ firmsAvailable(leaflet) => InFlight(firms) < MaxInFlight
    /\ firms' = firmsStarted(firms, leaflet)
    /\ dom' = firmsStartShown(dom, leaflet)
    /\ UNCHANGED <<pc, op, args, ret, loc, localStorage, leaflet, loadAll, embed, board>>

\* loadFIRMSData: await fetchWithTimeout(url, { timeoutMs: 15_000 }) settles
FirmsFetchSettled ==
    /\ firms.fetching > 0
    /\ \E outcome \in FetchOutcomes :
           IF outcome = "ok"
           THEN /\ firms' = [firms EXCEPT !.fetching = @ - 1, !.reading = @ + 1]
                /\ UNCHANGED dom
           ELSE /\ firms' = [firms EXCEPT !.fetching = @ - 1, !.last = "failed",
                                          !.rejected = @ \/ firmsCatch(dom).rejected]
                /\ dom' = firmsCatch(dom).dom
    /\ UNCHANGED <<pc, op, args, ret, loc, localStorage, leaflet, loadAll, embed, board>>

\* loadFIRMSData: await res.text() settles; the text is parsed, the hotspots
\* drawn and counted
FirmsTextSettled ==
    /\ firms.reading > 0
    /\ \E csvText \in CsvTexts \cup {Throw("TypeError")} :
           IF IsThrow(csvText)
           THEN /\ firms' = [firms EXCEPT !.reading = @ - 1, !.last = "failed",
                                          !.rejected = @ \/ firmsCatch(dom).rejected]
                /\ dom' = firmsCatch(dom).dom
                /\ UNCHANGED leaflet
           ELSE /\ firms' = [firms EXCEPT !.reading = @ - 1, !.last = "shown"]
                /\ leaflet' = [leaflet EXCEPT !.circles = FirmsCircles[csvText]]
                /\ dom' = firmsShown(dom, FirmsHotspots[csvText])
    /\ UNCHANGED <<pc, op, args, ret, loc, localStorage, loadAll, embed, board>>

\* the caller takes the result; the page is ready for the next call
Return ==
    /\ UNCHANGED pageVars
    /\ pc = "returned"
    /\ pc' = "idle"
    /\ op' = "none"
    /\ args' = <<>>
    /\ ret' = Undefined
    /\ loc' = NoLocals

Next ==
    \/ CallComputeEMC
    \/ CallEmcPercent
    \/ CallStepMoisture
    \/ CallUpdateTowardEMC
    \/ CallInitialMoistureFromRain
    \/ CallRosChPerHour
    \/ CallSimulate24HourDrying
    \/ SimulateDayHour
    \/ SimulateNightHour
    \/ SimulateReduceStart
    \/ SimulateReduceStep
    \/ SimulateReturn
    \/ CallRunModel
    \/ RunModelEntry
    \/ RunModelReturn
    \/ DOMContentLoaded
    \/ LoadAllData
    \/ NwsFetchSettled
    \/ NwsJsonSettled
    \/ EmbedFetchSettled
    \/ EmbedTextSettled
    \/ AllSettled
    \/ RefreshMapClick
    \/ FirmsFetchSettled
    \/ FirmsTextSettled
    \/ Return

Spec == Init /\ [][Next]_vars

\* runModel under steady weather
SteadyNext == CallRunModelSteady \/ SteadyEntry \/ SteadyAdvance
SteadySpec == Init /\ [][SteadyNext]_vars

\* ---- dashboard.js
\* fetchHotspots once its awaits are through
fetchHotspots(outcome) == IF outcome.ok THEN outcome.features ELSE hotspotsFallback

\* refreshData up to its first await: the card list is emptied, fetchHotspots called
refreshStarted(b) == [b EXCEPT !.cards = <<>>, !.runs = @ + 1, !.thrown = "none"]
\* refreshData after Promise.all: the cards of the counties, then the map
refreshRendered(b, fireData, weatherData) ==
    showHotspotsOnMap([b EXCEPT !.cards = cardsFrom(b.cards, fireData, weatherData, 1)],
                      fireData, weatherData)

\* window.onload: the first refreshData
WindowOnload ==
    /\ pc = "idle"
    /\ pc' = "hotspots"
    /\ op' = "refreshData"
    /\ args' = <<>>
    /\ board' = refreshStarted(board)
    /\ UNCHANGED <<ret, loc, mainPage>>

\* await fetchHotspots() settles; counties.map starts the four fetchWeather
HotspotsSettled ==
    /\ pc = "hotspots"
    /\ \E outcome \in HotspotOutcomes :
           args' = [fireData |-> fetchHotspots(outcome),
                    weatherData |-> [i \in 1..Len(counties) |-> Pending]]
    /\ pc' = "weather"
    /\ UNCHANGED <<op, ret, loc, mainPage, board>>

\* one fetchWeather settles, with the weather or with its fallback
WeatherSettled ==
    /\ pc = "weather"
    /\ \E i \in 1..Len(counties), now \in WeatherOutcomes :
           /\ args.weatherData[i] = Pending
           /\ args' = [args EXCEPT !.weatherData[i] = fetchWeather(now)]
    /\ UNCHANGED <<pc, op, ret, loc, mainPage, board>>

\* await Promise.all settles: the loop over the counties and showHotspotsOnMap
RefreshRendered ==
    /\ pc = "weather"
    /\ \A i \in 1..Len(counties) : args.weatherData[i] # Pending
    /\ board' = refreshRendered(board, args.fireData, args.weatherData)
    /\ pc' = "refreshed"
    /\ UNCHANGED <<op, args, ret, loc, mainPage>>

\* setInterval(refreshData, 3600000): the next run, an hour after the last
IntervalTick ==
    /\ pc = "refreshed"
    /\ board.runs < MaxRefresh
    /\ pc' = "hotspots"
    /\ args' = <<>>
    /\ board' = refreshStarted(board)
    /\ UNCHANGED <<op, ret, loc, mainPage>>

RefreshNext ==
    \/ WindowOnload
    \/ HotspotsSettled
    \/ WeatherSettled
    \/ RefreshRendered
    \/ IntervalTick
RefreshSpec == Init /\ [][RefreshNext]_vars

\* ================================================================ properties
\* the call of f has returned: args holds its arguments and ret its result
Returned(f) == pc = "returned" /\ op = f

\* x is a finite number with lo <= x <= hi, the bounds in units of 1/Scale
InRange(x, lo, hi) == IsNum(x) /\ lo <= x.v /\ x.v <= hi

\* the arguments of an EMC call are a temperature in [-50, 150] F and a
\* relative humidity in [0, 100] percent
EMCArgsInRange ==
    /\ InRange(args.tempF, -50 * Scale, 150 * Scale)
    /\ InRange(args.rh, 0, 100 * Scale)

\* C1: for every relative humidity in [0, 100] and temperature in [-50, 150] F,
\* computeEMC returns a finite value in [0.1, 100] and emcPercent a finite
\* value in [1.0, 35.0]
C1_EMCWithinClampBounds ==
    /\ Returned("computeEMC") /\ EMCArgsInRange => InRange(ret, Scale \div 10, 100 * Scale)
    /\ Returned("emcPercent") /\ EMCArgsInRange => InRange(ret, Scale, 35 * Scale)

\* computeEMC has returned its floor 0.1 for in-range arguments
C1_Witness == Returned("computeEMC") /\ EMCArgsInRange /\ ret = Fx(1, 10)

\* C2 (as stated): neither EMC function ever returns NaN or an infinite value,
\* whatever its arguments; a non-finite formula value is replaced by the floor
C2_EMCNeverNonFinite ==
    /\ Returned("computeEMC") => IsNum(ret)
    /\ Returned("emcPercent") => IsNum(ret)

\* the three built-in presets
BuiltInFuelKeys == {Text("pasture_grass"), Text("hardwood_deadfall"), Text("leaf_pine_litter")}

\* C3 (as stated): for a fuel key that is not a built-in preset, rosChPerHour
\* on the looked-up preset and simulate24HourDrying return null: no exception,
\* no number, no record
C3_UnknownFuelSignalled ==
    (/\ (Returned("rosChPerHour") \/ Returned("simulate24HourDrying"))
     /\ ~IsUndefined(args.fuelType)
     /\ args.fuelType \notin BuiltInFuelKeys)
    => ret.k = "null"

Min(a, b) == IF a < b THEN a ELSE b
Max(a, b) == IF a < b THEN b ELSE a

\* the arguments of a time-lag update are finite numbers
TimeLagArgsFinite ==
    IsNum(args.mPrev) /\ IsNum(args.emc) /\ IsNum(args.hours) /\ IsNum(args.tau)

\* x is a number with at most one decimal place
OneDecimal(x) == IsNum(x) /\ x.v % (Scale \div 10) = 0

\* ret lies in the closed interval between the previous moisture and the EMC,
\* widened by slack on both sides
RetBetweenPrevAndEMC(slack) ==
    InRange(ret, Min(args.mPrev.v, args.emc.v) - slack, Max(args.mPrev.v, args.emc.v) + slack)

\* C4 (as stated): for hours >= 0 and tau > 0, stepMoisture and updateTowardEMC
\* return a value in the closed interval between the previous moisture and the EMC
C4_UpdateWithinInterval ==
    (/\ Returned("stepMoisture") \/ Returned("updateTowardEMC")
     /\ TimeLagArgsFinite
     /\ args.hours.v >= 0
     /\ args.tau.v > 0)
    => RetBetweenPrevAndEMC(0)

\* C4 (amended): for finite arguments with hours >= 0 and tau > 0,
\* updateTowardEMC returns a value in the closed interval between the previous
\* moisture and the EMC; stepMoisture returns a value in that interval when both
\* are given to one decimal place, and otherwise leaves it by at most half a
\* tenth, the rounding of its result to one decimal
C4_UpdateWithinIntervalRounded ==
    (/\ Returned("stepMoisture") \/ Returned("updateTowardEMC")
     /\ TimeLagArgsFinite
     /\ args.hours.v >= 0
     /\ args.tau.v > 0)
    => /\ Returned("updateTowardEMC") => RetBetweenPrevAndEMC(0)
       /\ OneDecimal(args.mPrev) /\ OneDecimal(args.emc) => RetBetweenPrevAndEMC(0)
       /\ RetBetweenPrevAndEMC(Scale \div 20)

\* stepMoisture has moved a moisture strictly between where it was and the EMC
C4_Witness ==
    /\ Returned("stepMoisture")
    /\ TimeLagArgsFinite
    /\ args.hours.v > 0
    /\ args.tau.v > 0
    /\ ~OneDecimal(args.mPrev)
    /\ IsNum(ret)
    /\ Min(args.mPrev.v, args.emc.v) < ret.v
    /\ ret.v < Max(args.mPrev.v, args.emc.v)

C6_NonPositiveTauIsEquilibrium ==
    (/\ Returned("stepMoisture") \/ Returned("updateTowardEMC")
     /\ IsNum(args.tau) /\ args.tau.v <= 0)
    => /\ Returned("updateTowardEMC") => ret = args.emc
       /\ Returned("stepMoisture") => IsNum(ret)
       /\ (/\ Returned("stepMoisture")
           /\ IsNum(args.emc)
           /\ IsNum(args.hours) /\ args.hours.v >= Scale)
          => ret = round1(args.emc)

\* stepMoisture with tau = 0 has jumped from a different moisture to the EMC
C6_Witness ==
    /\ Returned("stepMoisture")
    /\ IsNum(args.tau) /\ args.tau.v = 0
    /\ IsNum(args.hours) /\ args.hours.v >= Scale
    /\ IsNum(args.mPrev) /\ IsNum(args.emc) /\ args.mPrev # args.emc
    /\ ret = round1(args.emc)

\* rosChPerHour has returned for a built-in preset and finite moisture, wind and slope
RosCallOnPreset ==
    /\ Returned("rosChPerHour")
    /\ args.fuelType \in BuiltInFuelKeys
    /\ IsNum(args.m1) /\ IsNum(args.wind) /\ IsNum(args.slope)

\* the preset a returned rosChPerHour call was given
RosFuel == FuelPresetsGet(args.fuelType)

\* C7: for each built-in preset and finite 1-hr moisture, wind speed and slope,
\* rosChPerHour returns a finite value of at least 0.1 chains/hour
C7_RosAtLeastFloor == RosCallOnPreset => IsNum(ret) /\ ret.v >= Scale \div 10

\* rosChPerHour has returned its smallest value, for hardwood dead fall at 60 %
\* moisture in calm air on flat ground
C7_Witness ==
    /\ RosCallOnPreset
    /\ args.fuelType = Text("hardwood_deadfall")
    /\ args.m1 = Whole(60)
    /\ args.wind = Whole(0)
    /\ ret = Fx(175, 1000)

\* C8: for pasture_grass, rosChPerHour does not decrease when the wind speed
\* rises with moisture and slope fixed, and does not increase when the 1-hr
\* moisture rises with wind and slope fixed
C8_RosMonotone ==
    (RosCallOnPreset /\ args.fuelType = Text("pasture_grass"))
    => /\ \A w \in WindValues :
              w.v >= args.wind.v
              => Ge(rosChPerHour(RosFuel, args.m1, w, args.slope), ret)
       /\ \A m \in M1Values :
              m.v >= args.m1.v
              => Le(rosChPerHour(RosFuel, m, args.wind, args.slope), ret)

\* rosChPerHour has returned for pasture_grass a value strictly above the one for
\* calm air and strictly above the one for the wettest fuel
C8_Witness ==
    /\ RosCallOnPreset
    /\ args.fuelType = Text("pasture_grass")
    /\ Gt(ret, rosChPerHour(RosFuel, args.m1, Whole(0), args.slope))
    /\ Gt(ret, rosChPerHour(RosFuel, Whole(60), args.wind, args.slope))

\* C9: for finite inputs the moisture multiplier is in [0.05, 2.5], the wind
\* multiplier in [0.5, 4.0] and exactly 1 for wind <= 5 mph, the slope multiplier
\* in [1.0, 2.5], and the rate of spread is at most 25 times the preset's baseROS
C9_MultipliersInRange ==
    RosCallOnPreset
    => /\ InRange(moistureMultiplier(args.m1, Fx(9, 1), RosFuel.o.moistureSensitivity),
                  (5 * Scale) \div 100, (25 * Scale) \div 10)
       /\ InRange(windMultiplier(args.wind, RosFuel.o.windSensitivity),
                  (5 * Scale) \div 10, 4 * Scale)
       /\ args.wind.v <= 5 * Scale
              => windMultiplier(args.wind, RosFuel.o.windSensitivity) = Fx(1, 1)
       /\ InRange(slopeMultiplier(args.slope), Scale, (25 * Scale) \div 10)
       /\ Le(ret, Mul(Fx(25, 1), RosFuel.o.baseROS))

\* rosChPerHour has returned 25 times baseROS: all three multipliers at their caps
C9_Witness ==
    /\ RosCallOnPreset
    /\ moistureMultiplier(args.m1, Fx(9, 1), RosFuel.o.moistureSensitivity) = Fx(25, 10)
    /\ windMultiplier(args.wind, RosFuel.o.windSensitivity) = Fx(4, 1)
    /\ slopeMultiplier(args.slope) = Fx(25, 10)
    /\ ret = Mul(Fx(25, 1), RosFuel.o.baseROS)

\* the documented triple for the rainfall r, in units of 1/Scale
ExpectedTriple(r) ==
    IF r < (10 * Scale) \div 100
    THEN [m1 |-> Fx(18, 1), m10 |-> Fx(15, 1), m100 |-> Fx(14, 1)]
    ELSE IF r < (30 * Scale) \div 100
    THEN [m1 |-> Fx(22, 1), m10 |-> Fx(17, 1), m100 |-> Fx(145, 10)]
    ELSE IF r < (75 * Scale) \div 100
    THEN [m1 |-> Fx(26, 1), m10 |-> Fx(20, 1), m100 |-> Fx(16, 1)]
    ELSE [m1 |-> Fx(30, 1), m10 |-> Fx(25, 1), m100 |-> Fx(20, 1)]

\* C10: initialMoistureFromRain is a four-bucket step function with strict "<"
\* thresholds at 0.10, 0.30 and 0.75 inch: each threshold falls in the wetter
\* bucket, and the triple depends on the rainfall alone
C10_RainBuckets ==
    (Returned("initialMoistureFromRain") /\ IsNum(args.rain))
    => ret = Obj(ExpectedTriple(args.rain.v))

\* initialMoistureFromRain has returned the second bucket for exactly 0.10 inch
C10_Witness ==
    /\ Returned("initialMoistureFromRain")
    /\ args.rain = Fx(10, 100)
    /\ ret = Obj([m1 |-> Fx(22, 1), m10 |-> Fx(17, 1), m100 |-> Fx(145, 10)])


\* ---------------------------------------------------------------- runModel
\* the entries runModel iterates over in the call in progress
CallEntries == runModelEntries(args.forecastEntries)

\* the daily result r carries the label and the parsed readings of entry number j
DescribesEntry(r, j) ==
    /\ r.day = dayLabel(CallEntries[j], j - 1)
    /\ r.temp = safeParse(AndProp(CallEntries[j], "temp"), Fx(70, 1))
    /\ r.rh = clamp(AndProp(CallEntries[j], "rh"), Fx(0, 1), Fx(100, 1))
    /\ r.wind = safeParse(AndProp(CallEntries[j], "wind"), Fx(0, 1))
    /\ r.hours = MathMax(Fx(0, 1), safeParse(AndProp(CallEntries[j], "hours"), Fx(12, 1)))

\* during and after a call of runModel the daily results are one per entry
\* visited, in the entries' order; the returned list has one per entry
OneResultPerEntry ==
    op = "runModel" =>
        /\ Len(loc.results) = loc.i
        /\ loc.i <= Len(CallEntries)
        /\ \A j \in 1..Len(loc.results) : DescribesEntry(loc.results[j], j)
        /\ pc = "returned" =>
              /\ ret.o.dailyResults = loc.results
              /\ Len(ret.o.dailyResults) = Len(CallEntries)

\* a step of a call of runModel leaves the daily results alone or appends one
ResultsOnlyAppended ==
    (op = "runModel" /\ op' = "runModel") =>
        \/ loc'.results = loc.results
        \/ /\ Len(loc'.results) = Len(loc.results) + 1
           /\ SubSeq(loc'.results, 1, Len(loc.results)) = loc.results

\* C11: runModel returns exactly one daily result per forecast entry, in the
\* entries' order (result i carries the label and readings of entry i), for
\* every length including zero and for a forecast that is no array; the list of
\* results is only ever appended to
C11_OneResultPerEntryInOrder == []OneResultPerEntry /\ [][ResultsOnlyAppended]_vars

\* a call on three entries, the first two different, has returned
C11_Witness ==
    /\ Returned("runModel")
    /\ Len(CallEntries) = 3
    /\ CallEntries[1] # CallEntries[2]
    /\ Len(ret.o.dailyResults) = 3


\* the 1-hr and 10-hr moistures step j starts from: the initial values for the
\* first step, the moistures reported for step j - 1 otherwise
Prev1Of(j) ==
    IF j = 1 THEN safeParse(args.initial1hr, Fx(8, 1)) ELSE loc.results[j - 1].moisture1Hr
Prev10Of(j) ==
    IF j = 1 THEN safeParse(args.initial10hr, Fx(10, 1)) ELSE loc.results[j - 1].moisture10Hr

\* the equilibrium moisture of entry number j's own temperature and humidity
EntryEMC(j) ==
    computeEMC(safeParse(AndProp(CallEntries[j], "temp"), Fx(70, 1)),
               clamp(AndProp(CallEntries[j], "rh"), Fx(0, 1), Fx(100, 1)))

\* the hours of entry number j
EntryHours(j) ==
    MathMax(Fx(0, 1), safeParse(AndProp(CallEntries[j], "hours"), Fx(12, 1)))

\* C12: in runModel the moistures reported for step i are the time-lag update
\* of the moistures reported for step i-1 (the initial values for the first
\* step) toward the equilibrium moisture of step i's own temperature and
\* humidity over step i's hours, with time constant 1 for the 1-hr and 10 for
\* the 10-hr fuel; this holds of every result as soon as it is reported, so no
\* step depends on a later one
C12_StepChainsFromPrevious ==
    op = "runModel" =>
        \A j \in 1..Len(loc.results) :
            /\ loc.results[j].emc = EntryEMC(j)
            /\ loc.results[j].moisture1Hr =
                   stepMoisture(Prev1Of(j), EntryEMC(j), EntryHours(j), Fx(1, 1))
            /\ loc.results[j].moisture10Hr =
                   stepMoisture(Prev10Of(j), EntryEMC(j), EntryHours(j), Fx(10, 1))

\* a returned call of three steps in which both moistures change at the second
\* and at the third step and the two fuels differ from the first step on
C12_Witness ==
    /\ Returned("runModel")
    /\ Len(loc.results) = 3
    /\ loc.results[2].moisture1Hr # loc.results[1].moisture1Hr
    /\ loc.results[3].moisture1Hr # loc.results[2].moisture1Hr
    /\ loc.results[2].moisture10Hr # loc.results[1].moisture10Hr
    /\ loc.results[3].moisture10Hr # loc.results[2].moisture10Hr
    /\ loc.results[1].moisture1Hr # loc.results[1].moisture10Hr


\* the steps of the returned call whose resulting 1-hr moisture is at most 6 %
CriticalSteps ==
    {j \in 1..Len(ret.o.dailyResults) :
        /\ IsNum(ret.o.dailyResults[j].moisture1Hr)
        /\ ret.o.dailyResults[j].moisture1Hr.v <= 6 * Scale}

\* C13: runModel's summary.firstCritical1HrDay is the label of the earliest
\* step whose resulting 1-hr moisture is at most 6 %, and it is null exactly
\* when no step's 1-hr moisture is at most 6 %
C13_FirstCriticalIsEarliest ==
    Returned("runModel") =>
        /\ (ret.o.summary.firstCritical1HrDay.k = "null") <=> (CriticalSteps = {})
        /\ \A j \in CriticalSteps :
              (\A i \in CriticalSteps : j <= i) =>
                  ret.o.summary.firstCritical1HrDay = ret.o.dailyResults[j].day

\* the first step stays above 6 %, the second and the third are critical and
\* carry different labels
C13_Witness ==
    /\ Returned("runModel")
    /\ CriticalSteps = {2, 3}
    /\ ret.o.dailyResults[2].day # ret.o.dailyResults[3].day
    /\ ret.o.summary.firstCritical1HrDay = ret.o.dailyResults[2].day


\* C14: runModel's summary.final1Hr and summary.final10Hr are the moistures of
\* the last daily result when there is at least one step; when the forecast
\* is empty or no array they are the initial 1-hr and 10-hr values the model
\* started from (the parsed arguments, reported as initial1hr and initial10hr)
C14_FinalIsLastOrInitial ==
    Returned("runModel") =>
        IF Len(CallEntries) >= 1
        THEN /\ ret.o.summary.final1Hr = ret.o.dailyResults[Len(CallEntries)].moisture1Hr
             /\ ret.o.summary.final10Hr = ret.o.dailyResults[Len(CallEntries)].moisture10Hr
        ELSE /\ ret.o.dailyResults = <<>>
             /\ ret.o.summary.final1Hr = safeParse(args.initial1hr, Fx(8, 1))
             /\ ret.o.summary.final10Hr = safeParse(args.initial10hr, Fx(10, 1))
             /\ ret.o.summary.final1Hr = ret.o.initial1hr
             /\ ret.o.summary.final10Hr = ret.o.initial10hr

\* three steps whose last moistures differ from the first step's and from the
\* initial values
C14_Witness ==
    /\ Returned("runModel")
    /\ Len(ret.o.dailyResults) = 3
    /\ ret.o.dailyResults[3].moisture1Hr # ret.o.dailyResults[1].moisture1Hr
    /\ ret.o.dailyResults[3].moisture10Hr # ret.o.dailyResults[1].moisture10Hr
    /\ ret.o.summary.final1Hr # ret.o.initial1hr
    /\ ret.o.summary.final10Hr # ret.o.initial10hr

\* a call whose forecast is no array has returned the initial values as final
NoArrayCallReached ==
    /\ Returned("runModel")
    /\ ~ArrayIsArray(args.forecastEntries)
    /\ ret.o.summary.final1Hr = Fx(8, 1)
    /\ IsUndefined(args.initial1hr)


\* ---------------------------------------------------- simulate24HourDrying
\* a call of simulate24HourDrying on a built-in fuel key, or on the default
\* fuel, is in progress or has returned
SimulationOnKnownFuel ==
    /\ op = "simulate24HourDrying"
    /\ args.fuelType \in BuiltInFuelKeys \cup {Undefined}

\* the period of hour h and the equilibrium moisture the call uses in it
HourPeriod(h) == IF h < 10 THEN "day" ELSE "night"
HourEMC(h) ==
    IF h < 10 THEN emcPercent(args.dayTempF, args.dayRHmin)
    ELSE emcPercent(args.nightTempF, args.nightRHmax)

\* the entries so far are those of hours 0, 1, 2, ... with the period and the
\* equilibrium moisture of their hour; the latest carries the current moistures
\* and the rate of spread of the current 1-hr moisture; the moistures start
\* from the rainfall's triple; the returned list is the 24 entries
HourlyEntriesInOrder ==
    SimulationOnKnownFuel =>
        /\ Len(loc.results) = loc.h
        /\ loc.h <= 24
        /\ \A j \in 1..Len(loc.results) :
              /\ loc.results[j].hour = j - 1
              /\ loc.results[j].period = HourPeriod(j - 1)
              /\ loc.results[j].emc = ToFixed(HourEMC(j - 1), 1)
        /\ loc.h = 0 =>
              /\ loc.m1 = initialMoistureFromRain(args.rain).m1
              /\ loc.m10 = initialMoistureFromRain(args.rain).m10
              /\ loc.m100 = initialMoistureFromRain(args.rain).m100
        /\ loc.h >= 1 =>
              /\ loc.results[loc.h].m1 = ToFixed(loc.m1, 1)
              /\ loc.results[loc.h].m10 = ToFixed(loc.m10, 1)
              /\ loc.results[loc.h].m100 = ToFixed(loc.m100, 1)
              /\ loc.results[loc.h].rosChPerHour =
                    ToFixed(rosChPerHour(simulationFuel(args.fuelType), loc.m1, args.wind,
                                         Fx(0, 1)), 2)
        /\ pc = "returned" =>
              /\ ret.o.hourly = loc.results
              /\ Len(ret.o.hourly) = 24

\* a step that adds an entry keeps the earlier entries and advances each
\* moisture by one hour toward the hour's equilibrium moisture, with time
\* constants 1, 10 and 100
HourAdvancesMoistures ==
    (SimulationOnKnownFuel /\ op' = op) =>
        \/ loc'.results = loc.results
        \/ /\ Len(loc'.results) = Len(loc.results) + 1
           /\ SubSeq(loc'.results, 1, Len(loc.results)) = loc.results
           /\ loc'.m1 = updateTowardEMC(loc.m1, HourEMC(loc.h), Fx(1, 1), Fx(1, 1))
           /\ loc'.m10 = updateTowardEMC(loc.m10, HourEMC(loc.h), Fx(1, 1), Fx(10, 1))
           /\ loc'.m100 = updateTowardEMC(loc.m100, HourEMC(loc.h), Fx(1, 1), Fx(100, 1))

\* C15: for a known fuel key simulate24HourDrying returns exactly 24 hourly
\* entries with hour 0..23 in order; hours 0-9 are 'day' and use the
\* equilibrium moisture of the day temperature and minimum RH, hours 10-23 are
\* 'night' and use that of the night temperature and maximum RH; each entry
\* advances the 1-hr, 10-hr and 100-hr moistures by one hour (time constants 1,
\* 10, 100) from the previous entry's, starting from the rainfall's initial
\* triple, and carries the rate of spread of its own 1-hr moisture
C15_HourlyProfile == []HourlyEntriesInOrder /\ [][HourAdvancesMoistures]_vars

\* a returned simulation on a preset whose 1-hr and 100-hr moistures move both
\* in the day and in the night hours
C15_Witness ==
    /\ Returned("simulate24HourDrying")
    /\ args.fuelType \in BuiltInFuelKeys
    /\ Len(ret.o.hourly) = 24
    /\ ret.o.hourly[1].m1 # ret.o.hourly[2].m1
    /\ ret.o.hourly[10].m1 # ret.o.hourly[11].m1
    /\ ret.o.hourly[1].m100 # ret.o.hourly[24].m100
    /\ ret.o.hourly[10].emc # ret.o.hourly[11].emc


\* a simulation on a built-in fuel key or the default fuel has returned its record
SimulationReturned == Returned("simulate24HourDrying") /\ SimulationOnKnownFuel

\* the hourly entry the summary's minM1Hour names
MinM1Entry == ret.o.hourly[ret.o.summary.minM1Hour + 1]

\* C16: in simulate24HourDrying's summary minM1Hour is the hour of an entry
\* whose 1-hr moisture is the minimum over all 24 entries, minM1Value and the
\* two reported rates of spread are that entry's, endOfDayM1 is the 1-hr
\* moisture of the entry of hour 9 and endOf24hM1 that of hour 23
C16_SummaryOfDriestHour ==
    SimulationReturned =>
        /\ ret.o.summary.minM1Hour \in 0..23
        /\ MinM1Entry.hour = ret.o.summary.minM1Hour
        /\ \A j \in 1..24 :
              Le(ParseFloat(MinM1Entry.m1.s), ParseFloat(ret.o.hourly[j].m1.s))
        /\ ret.o.summary.minM1Value = MinM1Entry.m1
        /\ ret.o.summary.maxROSchPerHour = MinM1Entry.rosChPerHour
        /\ ret.o.summary.maxROSFtPerMin = MinM1Entry.rosFtPerMin
        /\ ret.o.summary.endOfDayM1 = ret.o.hourly[10].m1
        /\ ret.o.hourly[10].hour = 9
        /\ ret.o.summary.endOf24hM1 = ret.o.hourly[24].m1
        /\ ret.o.hourly[24].hour = 23

\* the driest hour is neither the first nor the last and the moisture at the
\* end of the day differs from the one at the end of the 24 hours
C16_Witness ==
    /\ SimulationReturned
    /\ ret.o.summary.minM1Hour \in 1..22
    /\ ret.o.hourly[1].m1 # MinM1Entry.m1
    /\ ret.o.hourly[24].m1 # MinM1Entry.m1
    /\ ret.o.summary.endOfDayM1 # ret.o.summary.endOf24hM1


\* C17 (as stated): the summary's maxROSchPerHour and maxROSFtPerMin are the
\* peak rates of spread: each is at least the corresponding rate of every one
\* of the 24 hourly entries
C17_SummaryRosIsPeak ==
    SimulationReturned =>
        \A j \in 1..24 :
            /\ Ge(ParseFloat(ret.o.summary.maxROSchPerHour.s),
                  ParseFloat(ret.o.hourly[j].rosChPerHour.s))
            /\ Ge(ParseFloat(ret.o.summary.maxROSFtPerMin.s),
                  ParseFloat(ret.o.hourly[j].rosFtPerMin.s))


\* ------------------------------------------------- fallbacks and clamping
\* x is absent, non-numeric or non-finite
Unusable(x) ==
    \/ x.k \in {"undefined", "null", "nan", "inf"}
    \/ x.k = "str" /\ ~IsNum(StringToNumber(x.s))
    \/ x.k \notin {"num", "str"}

\* x, or the documented fallback d in its place
WithFallback(x, d) == IF Unusable(x) THEN d ELSE x

\* the period a settled run of loadNWSForecast has rendered live
LiveRun ==
    /\ pc = "settled"
    /\ args.fetch = "ok"
    /\ args.body \in GoodBodies
    /\ localStorage.mode = "ok"
LivePeriod == periodsOf(args.body).s[1]

\* C18 (as stated): a weather input that is non-numeric, absent or non-finite
\* is replaced before use by the documented fallback, temperature 70 F,
\* relative humidity 50 %, wind 5 mph, in computeEMC, in runModel and in
\* calculateFireDanger
C18_DocumentedFallbacks ==
    /\ Returned("computeEMC") =>
          ret = computeEMC(WithFallback(args.tempF, Whole(70)), WithFallback(args.rh, Whole(50)))
    /\ op = "runModel" =>
          \A j \in 1..Len(loc.results) :
              /\ Unusable(AndProp(CallEntries[j], "temp")) => loc.results[j].temp = Whole(70)
              /\ Unusable(AndProp(CallEntries[j], "rh")) => loc.results[j].rh = Whole(50)
              /\ Unusable(AndProp(CallEntries[j], "wind")) => loc.results[j].wind = Whole(5)
    /\ LiveRun =>
          dom.dangerLevel =
              dangerOf(WithFallback(GetProp(LivePeriod, "temperature"), Whole(70)),
                       WithFallback(OptProp(GetProp(LivePeriod, "relativeHumidity"), "value"),
                                    Whole(50)),
                       WithFallback(parseWindMph(GetProp(LivePeriod, "windSpeed")), Whole(5)))

\* the fallbacks the code applies: 70 F for the temperature everywhere; for the
\* humidity 0 % in computeEMC and runModel and 50 % in calculateFireDanger; for
\* the wind 0 mph in runModel and 5 mph in calculateFireDanger
FallbacksOfTheCode ==
    /\ Returned("computeEMC") =>
          ret = computeEMC(WithFallback(args.tempF, Whole(70)), WithFallback(args.rh, Whole(0)))
    /\ op = "runModel" =>
          \A j \in 1..Len(loc.results) :
              /\ Unusable(AndProp(CallEntries[j], "temp")) => loc.results[j].temp = Whole(70)
              /\ Unusable(AndProp(CallEntries[j], "rh")) => loc.results[j].rh = Whole(0)
              /\ Unusable(AndProp(CallEntries[j], "wind")) => loc.results[j].wind = Whole(0)

\* a call of one of the two time-lag updates with finite moistures, a positive
\* time constant and a negative elapsed time has returned
NegativeHoursCall ==
    /\ pc = "returned"
    /\ op \in {"stepMoisture", "updateTowardEMC"}
    /\ IsNum(args.mPrev) /\ IsNum(args.emc)
    /\ IsNum(args.tau) /\ args.tau.v > 0
    /\ IsNum(args.hours) /\ args.hours.v < 0

\* a call of one of the two EMC formulas with a finite temperature and a
\* finite humidity outside [0, 100] has returned
OutOfRangeRHCall ==
    /\ pc = "returned"
    /\ op \in {"computeEMC", "emcPercent"}
    /\ IsNum(args.tempF)
    /\ IsNum(args.rh) /\ (args.rh.v < 0 \/ args.rh.v > 100 * Scale)

\* rh clamped to [0, 100]
ClampedRH(rh) == IF rh.v < 0 THEN Whole(0) ELSE IF rh.v > 100 * Scale THEN Whole(100) ELSE rh

\* C19 (as stated): in both formula variants a relative humidity above 100 is
\* used as 100 and one below 0 as 0, and a negative elapsed time is used as 0
\* hours, so that it leaves the moisture where it was (up to the rounding to
\* one decimal of stepMoisture) instead of moving it away from the EMC
C19_OutOfRangeClamped ==
    /\ OutOfRangeRHCall =>
          ret = IF op = "computeEMC" THEN computeEMC(args.tempF, ClampedRH(args.rh))
                ELSE emcPercent(args.tempF, ClampedRH(args.rh))
    /\ NegativeHoursCall =>
          ret = IF op = "stepMoisture"
                THEN stepMoisture(args.mPrev, args.emc, Whole(0), args.tau)
                ELSE updateTowardEMC(args.mPrev, args.emc, Whole(0), args.tau)
    /\ NegativeHoursCall => Abs(ret.v - args.mPrev.v) <= Scale \div 20
    /\ op = "runModel" =>
          \A j \in 1..Len(loc.results) :
              /\ InRange(loc.results[j].rh, 0, 100 * Scale)
              /\ InRange(loc.results[j].hours, 0, 48 * Scale)

\* the part of C19 the code keeps: the humidity clamp of both EMC formulas, and
\* the clamp of the elapsed time in stepMoisture and runModel
ClampsOfTheCode ==
    /\ OutOfRangeRHCall =>
          ret = IF op = "computeEMC" THEN computeEMC(args.tempF, ClampedRH(args.rh))
                ELSE emcPercent(args.tempF, ClampedRH(args.rh))
    /\ (NegativeHoursCall /\ op = "stepMoisture") =>
          /\ ret = stepMoisture(args.mPrev, args.emc, Whole(0), args.tau)
          /\ Abs(ret.v - args.mPrev.v) <= Scale \div 20
    /\ op = "runModel" =>
          \A j \in 1..Len(loc.results) :
              /\ InRange(loc.results[j].rh, 0, 100 * Scale)
              /\ InRange(loc.results[j].hours, 0, 48 * Scale)


\* --------------------------------------------------------- loadNWSForecast
\* a run of loadNWSForecast has completed: its promise is settled
NwsSettled == pc = "settled" /\ op = "loadNWSForecast"

\* the run's fetch succeeded with HTTP ok and a non-empty periods array
FetchGood == args.fetch = "ok" /\ args.body \in GoodBodies

\* the run's fetch failed, timed out, was not ok, or its body had no periods
FetchFailed ==
    \/ args.fetch \in {"network error", "timeout", "http error"}
    \/ args.fetch = "ok" /\ args.body \notin GoodBodies

\* the storage holds a cached forecast with a non-empty periods array
UsableCache ==
    /\ localStorage.item.k = "json"
    /\ hasPeriods(periodsOf(localStorage.item.o))
CachedPeriod == periodsOf(localStorage.item.o).s[1]

\* the page shows the period p, as live or as cached data
ShowsPeriod(p, cached) ==
    /\ dom.tempValue = Str(JsString(GetProp(p, "temperature")) \o <<"deg", "F">>)
    /\ dom.weatherTable # <<>>
    /\ dom.weatherTable[1] = p
    /\ dom.dangerLevel \in {"HIGH", "MODERATE", "LOW"}
    /\ dom.dangerText = dangerDescription(dom.dangerLevel, cached)

\* the four readouts show their placeholders
Placeholders ==
    /\ dom.tempValue = Str(<<"-", "-", "deg", "F">>)
    /\ dom.humidityValue = Str(<<"-", "-", "%">>)
    /\ dom.windValue = Str(<<"-", "-", " ", "m", "p", "h">>)
    /\ dom.windDirection = Str(<<"-", "-">>)

\* the alert is visible with the message of the final fallback
NoCacheAlert ==
    /\ ~dom.alertHidden
    /\ dom.alertMessage = "Weather feed unavailable (no cache)."

\* the three stages, in a state where a run has completed
FailSoftStages ==
    /\ ~IsThrow(ret)
    /\ FetchGood => ShowsPeriod(periodsOf(args.body).s[1], FALSE) /\ ~NoCacheAlert
    /\ (FetchFailed /\ UsableCache) => ShowsPeriod(CachedPeriod, TRUE) /\ ~NoCacheAlert
    /\ (FetchFailed /\ ~UsableCache) => Placeholders /\ NoCacheAlert
    /\ (Placeholders /\ NoCacheAlert) => ~UsableCache

\* C20 (as stated): loadNWSForecast is fail-soft in three ordered stages: a
\* fetch that succeeds with HTTP ok and a non-empty periods array is rendered
\* live; a fetch that fails, times out, is not ok or has no periods is answered
\* from a cached forecast with non-empty periods, marked cached and without the
\* 'Weather feed unavailable' alert; only without a usable cache are the
\* readouts reset to placeholders and that alert shown; the function never rejects
C20_FailSoftInStages == NwsSettled => FailSoftStages

\* the stages hold of every run in a browser whose storage reads and writes
StagesWhenStorageWorks == (NwsSettled /\ localStorage.mode = "ok") => FailSoftStages

\* a run whose fetch succeeded with periods has ended in the final fallback
LiveForecastLost == NwsSettled /\ FetchGood /\ Placeholders /\ NoCacheAlert

\* a run has rejected
NwsRejected == NwsSettled /\ IsThrow(ret)

\* the page is loaded: the DOMContentLoaded handler has run
PageLoaded == op = "loadNWSForecast"
\* this step completes a run of loadNWSForecast
RunCompletes == PageLoaded /\ pc # "settled" /\ pc' = "settled"

\* ---- the cache of the last good forecast
\* a step on the loaded page that completes a run with a good response leaves
\* that response's body as the cached forecast, if it leaves one; any other
\* step leaves the cache as it was; what is written passes the test of the
\* cached path
CacheIsLastGood ==
    PageLoaded =>
        /\ (RunCompletes /\ FetchGood' /\ UsableCache')
              => localStorage'.item = JSONStringify(args'.body)
        /\ ~(RunCompletes /\ FetchGood') => localStorage'.item = localStorage.item
        /\ localStorage'.item # localStorage.item => UsableCache'
\* C23: after any sequence of loadNWSForecast runs the cached
\* forecast is the body of the most recent successful response whose periods
\* array was non-empty; a failed or invalid response never overwrites, clears
\* or corrupts the cache, and an entry written by this code passes the validity
\* test of the cached path
C23_CacheIsLastGoodResponse == [][CacheIsLastGood]_vars

\* the same, for the good responses the storage took
CacheIsLastGoodStored ==
    PageLoaded =>
        /\ (RunCompletes /\ FetchGood' /\ localStorage.mode = "ok")
              => localStorage'.item = JSONStringify(args'.body)
        /\ ~(RunCompletes /\ FetchGood' /\ localStorage.mode = "ok")
              => localStorage'.item = localStorage.item
        /\ localStorage'.item # localStorage.item => UsableCache'
\* what the code keeps: the cached forecast is the body of the most recent
\* successful response with a non-empty periods array that the storage accepted
\* (setItem did not throw); every other run, on a failed or invalid response
\* or with a storage that refuses the write, leaves the entry as it was, and
\* an entry written by this code passes the validity test of the cached path
CacheIsLastStoredResponse == [][CacheIsLastGoodStored]_vars
\* a run failed and was answered from the two-period forecast an earlier run
\* of this page had cached
CachedForecastReused ==
    /\ NwsSettled /\ FetchFailed /\ localStorage.mode = "ok"
    /\ localStorage.item = JSONStringify(Forecast(<<PeriodHot, PeriodCool>>))
    /\ ShowsPeriod(PeriodHot, TRUE)
\* a good response has left the cache as it was
GoodResponseNotCached ==
    /\ NwsSettled /\ FetchGood
    /\ localStorage.item # JSONStringify(args.body)
    /\ UsableCache

\* ---- the danger alert
\* the readings the fire danger of the period p is classified by
PeriodRH(p) == dangerRH(OptProp(GetProp(p, "relativeHumidity"), "value"))
PeriodTemp(p) == dangerTemp(GetProp(p, "temperature"))
PeriodWind(p) == dangerWind(parseWindMph(GetProp(p, "windSpeed")))
\* (RH < 30 and temp > 75 and wind > 10) or (RH < 20 and wind > 15)
HighReadings(p) ==
    \/ /\ Lt(PeriodRH(p), Whole(30))
       /\ Gt(PeriodTemp(p), Whole(75))
       /\ Gt(PeriodWind(p), Whole(10))
    \/ /\ Lt(PeriodRH(p), Whole(20))
       /\ Gt(PeriodWind(p), Whole(15))
\* the run ended in the final fallback; otherwise, the forecast it rendered
FinalFallback == Placeholders /\ NoCacheAlert
RenderedPeriod == dom.weatherTable[1]
RunRendered == ~Placeholders /\ dom.weatherTable # <<>>
\* the alert and the level after a run
AlertMatchesRun ==
    /\ ~dom.alertHidden <=> (FinalFallback \/ (RunRendered /\ HighReadings(RenderedPeriod)))
    /\ RunRendered => (dom.dangerLevel = "HIGH" <=> HighReadings(RenderedPeriod))
    /\ (RunRendered /\ dom.dangerLevel \in {"LOW", "MODERATE"}) => dom.alertHidden
\* C24: after each run of loadNWSForecast the danger alert is visible exactly
\* when the forecast just rendered, live or cached, is classified HIGH or the
\* run ended in the final fallback; an alert of an earlier run is hidden once
\* a later run renders a LOW or MODERATE forecast; the level shown is HIGH
\* exactly when (RH < 30 and temp > 75 and wind > 10) or (RH < 20 and wind > 15)
C24_AlertFollowsLastRun == NwsSettled => AlertMatchesRun
\* a run has rendered a LOW forecast and the alert an earlier run raised for
\* a HIGH one is hidden again
C24_Witness ==
    /\ NwsSettled /\ RunRendered
    /\ dom.dangerLevel = "LOW" /\ dom.alertHidden
    /\ dom.alertMessage = "High fire danger conditions detected"
\* a run has ended in the final fallback, its alert visible
FallbackAlertShown == NwsSettled /\ FinalFallback /\ ~dom.alertHidden

\* ---- the optional loads of the dashboard
\* the weather readouts, the detail table, the fire-danger level and the alert
WeatherShown ==
    <<dom.tempValue, dom.humidityValue, dom.windValue, dom.windDirection, dom.weatherTable,
      dom.dangerLevel, dom.dangerClass, dom.dangerText, dom.alertHidden, dom.alertMessage>>
\* no loadFIRMSData call was rejected, and the call that ended last, if it
\* failed, left the hotspot count at "Hotspots unavailable"
FirmsAbsorbed ==
    /\ ~firms.rejected
    /\ firms.last = "failed" => dom.hotspotCount = HotspotsUnavailable
\* a step of loadFIRMSData (a call, or one of its awaits settling) leaves the
\* weather alone; loadAllData gets past its await only when loadNWSForecast and
\* loadForecastEmbed are settled, calls loadFIRMSData then and is through at once
FirmsOptional ==
    /\ (PageLoaded /\ (firms' # firms \/ dom'.hotspotCount # dom.hotspotCount \/ leaflet' # leaflet))
          => WeatherShown' = WeatherShown
    /\ (firms'.fetching > firms.fetching /\ loadAll' # loadAll)
          => pc = "settled" /\ embed = "settled"
    /\ (loadAll = "awaiting" /\ loadAll' = "resolved")
          => /\ pc = "settled" /\ embed = "settled"
             /\ firms' = firmsStarted(firms, leaflet)
             /\ firmsAvailable(leaflet) => InFlight(firms') > 0

\* C21: loading the FIRMS hotspots is optional and does not block: loadAllData
\* waits for the NWS forecast and the forecast embed only and calls
\* loadFIRMSData afterwards without awaiting it; every failure of loadFIRMSData
\* (no map, HTTP error, time-out, rejected read) stays inside it, leaves the
\* hotspot count at "Hotspots unavailable" and changes neither the weather
\* readouts nor the fire-danger level nor the danger alert
C21_FirmsOptionalNonBlocking == []FirmsAbsorbed /\ [][FirmsOptional]_vars
\* loadAllData is through while its loadFIRMSData call is in flight, and an
\* earlier call failed under a HIGH forecast with its alert
C21_Witness ==
    /\ loadAll = "resolved" /\ InFlight(firms) > 0
    /\ firms.last = "failed"
    /\ dom.hotspotCount = HotspotsUnavailable
    /\ dom.dangerLevel = "HIGH" /\ ~dom.alertHidden

\* ---- runModel under steady weather
\* the step reported last gives both moistures as equal to its EMC
ReportedAtEMC ==
    /\ loc.results[1].moisture1Hr = loc.results[1].emc
    /\ loc.results[1].moisture10Hr = loc.results[1].emc
\* the step reported last gives the moistures it started from: the weather
\* being the same, every later step starts from them and gives them again
SteadyFixedPoint ==
    /\ pc = "pushed"
    /\ loc.results[1].moisture1Hr = loc.m1
    /\ loc.results[1].moisture10Hr = loc.m10
\* C22: in runModel, when every step has the same temperature and humidity and
\* a positive elapsed time, the reported 1-hr and 10-hr moistures are, from
\* some step on, equal to the reported EMC on every step, whatever the initial
\* moistures; so a step that reports the moistures it started from, which
\* every later step repeats, reports the EMC
C22_SteadyWeatherConverges == SteadyFixedPoint => ReportedAtEMC
\* what the code's rounding leaves: the moistures come to rest within half a
\* percent of the EMC
SteadyRestsNearEMC ==
    SteadyFixedPoint =>
        /\ Le(Sub(loc.m1, loc.results[1].emc), Fx(5, 10))
        /\ Le(Sub(loc.results[1].emc, loc.m1), Fx(5, 10))
        /\ Le(Sub(loc.m10, loc.results[1].emc), Fx(5, 10))
        /\ Le(Sub(loc.results[1].emc, loc.m10), Fx(5, 10))
\* with twelve hours between the steps they come to rest at the EMC
SteadyHalfDaysConverge ==
    (SteadyFixedPoint /\ loc.results[1].hours = Whole(12)) => ReportedAtEMC

\* ---- the refreshes of dashboard.js
\* a run of refreshData is through
RefreshCompleted == pc = "refreshed"
\* the card list holds the cards of this run: one per county, in the counties' order
CardsOfThisRun ==
    /\ Len(board.cards) = Len(counties)
    /\ \A i \in 1..Len(counties) :
           board.cards[i] = renderCard(counties[i], args.weatherData[i],
                                       Len(hotspotsNear(args.fireData, counties[i])))
\* L.map('map') is called once at most
MapInitialisedOnce == board.initCalls <= 1

\* C25: over all runs of refreshData the map on the container 'map' is initialised
\* once at most, and when a run is through the card list holds exactly the four
\* cards of that run, one per county
C25_OneMapFourCards == MapInitialisedOnce /\ (RefreshCompleted => CardsOfThisRun)

\* the cards part alone holds on every run
FourCardsAfterEachRun == RefreshCompleted => CardsOfThisRun
\* a later run ends with Leaflet refusing the container, its cards shown
LaterRunRefused ==
    /\ RefreshCompleted
    /\ board.runs = 2
    /\ board.thrown = "Map container is already initialized."
    /\ CardsOfThisRun

====
